---- MODULE Spec2Model ----
(***************************************************************************)
(* Title management of the IOS ES device (Core/IOS/ES/TitleManagement.cpp):*)
(* ticket import, the title import session (AddTMD .. AddTitleFinish), the *)
(* title export session (ExportTitleInit .. ExportTitleDone) and deletion. *)
(*                                                                         *)
(* Data are sequences of bytes (0..255).  AES-128 is replaced by a toy     *)
(* 16-byte block permutation; the CBC chaining (XOR with the previous      *)
(* ciphertext block, the IV written back by the call) is kept.  SHA-1 is   *)
(* replaced by a small rolling checksum.                                   *)
(***************************************************************************)
EXTENDS Integers, Sequences, FiniteSets, TLC

\* ------------------------------------------------------------------ bytes

Byte == 0..255

RECURSIVE XorBits(_, _, _)
XorBits(a, b, n) ==
  IF n = 0 THEN 0
  ELSE ((a + b) % 2) + 2 * XorBits(a \div 2, b \div 2, n - 1)

\* The XOR of two bytes, tabulated once.
XorTable == [a \in Byte |-> [b \in Byte |-> XorBits(a, b, 8)]]

Xor(a, b) == XorTable[a][b]

Min(a, b) == IF a < b THEN a ELSE b

AlignUp(value, size) == ((value + size - 1) \div size) * size

Zeros(n) == [i \in 1..n |-> 0]

Take(s, n) == SubSeq(s, 1, Min(n, Len(s)))

\* ------------------------------------------------------------- crypto engine

\* AES block size in bytes (mbedtls_aes_crypt_cbc works on 16-byte blocks).
AES_BLOCK == 16

\* Transfer alignment used by ExportContentData.
EXPORT_ALIGN == 32

\* Toy stand-in for the AES block encryption: an invertible map of the block
\* that depends on every key byte position.
AesEncryptBlock(key, block) ==
  [i \in 1..AES_BLOCK |-> (3 * block[i] + key[i]) % 256]

\* Its inverse (171 * 3 = 513 = 1 mod 256).
AesDecryptBlock(key, block) ==
  [i \in 1..AES_BLOCK |-> (171 * ((block[i] - key[i] + 256) % 256)) % 256]

XorBlock(a, b) == [i \in 1..AES_BLOCK |-> Xor(a[i], b[i])]

BlockOf(data, k) == SubSeq(data, (k - 1) * AES_BLOCK + 1, k * AES_BLOCK)

\* mbedtls_aes_crypt_cbc(MBEDTLS_AES_ENCRYPT): returns [ret, out, iv]; the iv is
\* updated in place to the last ciphertext block.  A length that is not a
\* multiple of 16 is refused (ret # 0) and nothing is written.
RECURSIVE CbcEncryptBlocks(_, _, _, _, _)
CbcEncryptBlocks(key, iv, data, k, acc) ==
  IF k > Len(data) \div AES_BLOCK THEN [ret |-> 0, out |-> acc, iv |-> iv]
  ELSE LET c == AesEncryptBlock(key, XorBlock(BlockOf(data, k), iv))
       IN  CbcEncryptBlocks(key, c, data, k + 1, acc \o c)

AesCbcEncrypt(key, iv, data) ==
  IF Len(data) % AES_BLOCK # 0
    THEN [ret |-> -1, out |-> Zeros(Len(data)), iv |-> iv]
    ELSE CbcEncryptBlocks(key, iv, data, 1, <<>>)

\* mbedtls_aes_crypt_cbc(MBEDTLS_AES_DECRYPT), same conventions.
RECURSIVE CbcDecryptBlocks(_, _, _, _, _)
CbcDecryptBlocks(key, iv, data, k, acc) ==
  IF k > Len(data) \div AES_BLOCK THEN [ret |-> 0, out |-> acc, iv |-> iv]
  ELSE LET c == BlockOf(data, k)
           p == XorBlock(AesDecryptBlock(key, c), iv)
       IN  CbcDecryptBlocks(key, c, data, k + 1, acc \o p)

AesCbcDecrypt(key, iv, data) ==
  IF Len(data) % AES_BLOCK # 0
    THEN [ret |-> -1, out |-> Zeros(Len(data)), iv |-> iv]
    ELSE CbcDecryptBlocks(key, iv, data, 1, <<>>)

\* Stand-in for mbedtls_sha1: a rolling checksum of the bytes.
RECURSIVE Sha1Step(_, _, _)
Sha1Step(data, k, h) ==
  IF k > Len(data) THEN h
  ELSE Sha1Step(data, k + 1, (h * 33 + data[k] + 1) % 65521)

Sha1(data) == Sha1Step(data, 1, 5381)

\* The IV of a content: the lower two bytes of the content index, zero extended.
ContentIV(index) ==
  [i \in 1..AES_BLOCK |->
     IF i = 1 THEN (index \div 256) % 256
     ELSE IF i = 2 THEN index % 256
     ELSE 0]


\* ------------------------------------------------------------------ data model

\* m_addtitle_content_id value meaning "no content open" (0xFFFFFFFF as a 32-bit
\* pattern; content ids are only compared, never computed with).
NO_CONTENT == -1

\* CanDeleteTitle: the reserved high half and the low-half threshold.
SYSTEM_TITLE_HIGH == 1

SYSTEM_TITLE_LOW_MAX == 257

\* A 64-bit title id, kept as its two 32-bit halves (title_id >> 32, (u32)title_id).
TitleId(high, low) == [hi |-> high, lo |-> low]

\* IOS::ES::Content: one content record of a TMD.  The size is a u64, held as
\* its two 32-bit words: size_hi * 2^32 + size.
Content64(id, index, size_hi, size, sha1, shared) ==
  [id |-> id, index |-> index, size_hi |-> size_hi, size |-> size, sha1 |-> sha1,
   shared |-> shared]

\* A content record whose size fits in 32 bits.
Content(id, index, size, sha1, shared) == Content64(id, index, 0, size, sha1, shared)

\* A parsed TMD (TMDReader): IsValid(), GetTitleId(), GetContents().
TMD(title_id, contents) ==
  [valid |-> TRUE, empty |-> FALSE, title_id |-> title_id, contents |-> contents]

\* TMDReader holding bytes that do not parse.
MalformedTMD ==
  [valid |-> FALSE, empty |-> FALSE, title_id |-> TitleId(0, 0), contents |-> <<>>]

\* TMDReader after SetBytes({}).
EmptyTMD ==
  [valid |-> FALSE, empty |-> TRUE, title_id |-> TitleId(0, 0), contents |-> <<>>]

\* TMDReader::FindContentById
HasContentId(tmd, content_id) == \E k \in 1..Len(tmd.contents) : tmd.contents[k].id = content_id

FindContentById(tmd, content_id) ==
  LET k == CHOOSE j \in 1..Len(tmd.contents) :
             /\ tmd.contents[j].id = content_id
             /\ \A m \in 1..(j - 1) : tmd.contents[m].id # content_id
  IN  tmd.contents[k]

\* A parsed ticket (TicketReader).
Ticket(title_id, device_id, title_key) ==
  [valid |-> TRUE, title_id |-> title_id, device_id |-> device_id, title_key |-> title_key]

MalformedTicket ==
  [valid |-> FALSE, title_id |-> TitleId(0, 0), device_id |-> 0, title_key |-> Zeros(AES_BLOCK)]

\* Partial functions (files on the NAND are keyed by their path).
Put(f, k, v) == [x \in (DOMAIN f) \cup {k} |-> IF x = k THEN v ELSE f[x]]

Drop(f, ks) == [x \in (DOMAIN f) \ ks |-> f[x]]

NoFiles == [x \in {} |-> 0]

\* ------------------------------------------------------------------ state

VARIABLES
  tickets,                    \* ticket files: title id -> ticket
  uid_sys,                    \* title ids registered in uid.sys
  m_addtitle_tmd,             \* the staged (import) TMD
  m_addtitle_content_id,      \* id of the content being added, or NO_CONTENT
  m_addtitle_content_buffer,  \* bytes accumulated for that content
  import_content,             \* /import/<title>/content/<id>.app: <<title, id>> -> bytes
  import_tmd,                 \* /import/<title>/content/title.tmd: title -> TMD
  title_dirs,                 \* titles whose /title/<hi>/<lo>/ directory exists
  title_content,              \* /title/<title>/content/<id>.app: <<title, id>> -> bytes
  title_tmd,                  \* /title/<title>/content/title.tmd: title -> TMD
  shared_map,                 \* /shared1/content.map: sequence of SHA-1s, entry k names file k
  shared_files,               \* /shared1/<k>.app: k -> bytes
  m_export_title_context,     \* [valid, tmd, title_key, contents: handle -> ExportContent]
  export_stream,              \* per open handle: the bytes handed to the caller so far
                              \* (out), the lengths asked for (requests) and
                              \* what the latest call copied out (written)
  crashed,                    \* the process died on an invalid memory access
  last                        \* the last request: [op, vectors_ok, arg, ret, value]

nand == <<tickets, uid_sys, import_content, import_tmd, title_dirs, title_content,
          title_tmd, shared_map, shared_files>>

import_session == <<m_addtitle_tmd, m_addtitle_content_id, m_addtitle_content_buffer>>

export_session == <<m_export_title_context, export_stream>>

vars == <<nand, import_session, export_session, crashed, last>>

\* The last request and its reply: the handler, whether the request had the
\* number and sizes of vectors the handler asks for, the arguments read from
\* them, the name of the result code and, for non-negative replies, the value
\* returned (GetDefaultReply(value)).
Reply(op, vectors_ok, arg, ret, value) ==
  [op |-> op, vectors_ok |-> vectors_ok, arg |-> arg, ret |-> ret, value |-> value]

\* A request refused or failed with every variable left as it was.
Refuse(op, vectors_ok, arg, ret) ==
  /\ last' = Reply(op, vectors_ok, arg, ret, 0)
  /\ UNCHANGED <<nand, import_session, export_session, crashed>>

\* An empty export context (TitleExportContext, default constructed).
NoExport ==
  [valid |-> FALSE, tmd |-> EmptyTMD, title_key |-> Zeros(AES_BLOCK), contents |-> NoFiles]

\* A NAND with nothing installed, and idle sessions.
InitSessions ==
  /\ m_addtitle_tmd = EmptyTMD
  /\ m_addtitle_content_id = NO_CONTENT
  /\ m_addtitle_content_buffer = <<>>
  /\ m_export_title_context = NoExport
  /\ export_stream = NoFiles
  /\ crashed = FALSE
  /\ last = Reply("none", TRUE, <<>>, "IPC_SUCCESS", 0)

EmptyNand ==
  /\ tickets = NoFiles
  /\ uid_sys = {}
  /\ import_content = NoFiles
  /\ import_tmd = NoFiles
  /\ title_dirs = {}
  /\ title_content = NoFiles
  /\ title_tmd = NoFiles
  /\ shared_map = <<>>
  /\ shared_files = NoFiles

\* ------------------------------------------------------------------ tickets

\* EcWii::GetNGID(): the device id of this console.
LocalDeviceId == 77

\* The console's key used to personalise ticket title keys.
DeviceKey == [i \in 1..AES_BLOCK |-> (11 * i) % 256]

\* TicketReader::Unpersonalise: strips the device binding of the title key.
Unpersonalise(ticket) ==
  [ticket EXCEPT !.title_key = XorBlock(ticket.title_key, DeviceKey)]

\* DiscIO::FindSignedTicket
HasTicket(title_id) == title_id \in DOMAIN tickets

FindSignedTicket(title_id) == IF HasTicket(title_id) THEN tickets[title_id] ELSE MalformedTicket

\* AddTicket without the device id comparison: every valid ticket is stored.
AddTicket_NoDeviceCheck(vectors_ok, ticket, unpersonalise_ok, write_ok) ==
  LET arg == <<ticket>> IN
  /\ ~crashed
  /\ IF ~vectors_ok \/ ~ticket.valid
       THEN Refuse("AddTicket", vectors_ok, arg, "ES_PARAMETER_SIZE_OR_ALIGNMENT")
     ELSE IF ticket.device_id # 0 /\ ~unpersonalise_ok
       THEN Refuse("AddTicket", vectors_ok, arg, "UNPERSONALISE_ERROR")
     ELSE IF ~write_ok
       THEN Refuse("AddTicket", vectors_ok, arg, "ES_WRITE_FAILURE")
     ELSE
       /\ tickets' = Put(tickets, ticket.title_id,
                         IF ticket.device_id # 0 THEN Unpersonalise(ticket) ELSE ticket)
       /\ last' = Reply("AddTicket", vectors_ok, arg, "IPC_SUCCESS", 0)
       /\ UNCHANGED <<uid_sys, import_content, import_tmd, title_dirs, title_content,
                      title_tmd, shared_map, shared_files, import_session,
                      export_session, crashed>>

\* ES::AddTicket.  unpersonalise_ok and write_ok are the outcomes of
\* TicketReader::Unpersonalise and DiscIO::AddTicket.
AddTicket(vectors_ok, ticket, unpersonalise_ok, write_ok) ==
  LET arg == <<ticket>> IN
  /\ ~crashed
  /\ IF ~vectors_ok \/ ~ticket.valid
       THEN Refuse("AddTicket", vectors_ok, arg, "ES_PARAMETER_SIZE_OR_ALIGNMENT")
     ELSE IF ticket.device_id # 0 /\ LocalDeviceId # ticket.device_id
       THEN Refuse("AddTicket", vectors_ok, arg, "ES_DEVICE_ID_MISMATCH")
     ELSE IF ticket.device_id # 0 /\ ~unpersonalise_ok
       THEN Refuse("AddTicket", vectors_ok, arg, "UNPERSONALISE_ERROR")
     ELSE IF ~write_ok
       THEN Refuse("AddTicket", vectors_ok, arg, "ES_WRITE_FAILURE")
     ELSE
       /\ tickets' = Put(tickets, ticket.title_id,
                         IF ticket.device_id # 0 THEN Unpersonalise(ticket) ELSE ticket)
       /\ last' = Reply("AddTicket", vectors_ok, arg, "IPC_SUCCESS", 0)
       /\ UNCHANGED <<uid_sys, import_content, import_tmd, title_dirs, title_content,
                      title_tmd, shared_map, shared_files, import_session,
                      export_session, crashed>>

\* ------------------------------------------------------------------ import session

\* ES::AddTMD keeping the content records of a TMD staged before, after those
\* of the new one.
AddTMD_MergesContents(vectors_ok, tmd) ==
  LET arg == <<tmd>> IN
  /\ ~crashed
  /\ IF ~vectors_ok
       THEN Refuse("AddTMD", vectors_ok, arg, "ES_PARAMETER_SIZE_OR_ALIGNMENT")
     ELSE
       /\ m_addtitle_tmd' =
            IF tmd.valid /\ m_addtitle_tmd.valid
              THEN [tmd EXCEPT !.contents = @ \o m_addtitle_tmd.contents]
              ELSE tmd
       /\ IF ~tmd.valid
            THEN /\ last' = Reply("AddTMD", vectors_ok, arg, "ES_INVALID_TMD", 0)
                 /\ UNCHANGED uid_sys
            ELSE /\ uid_sys' = uid_sys \cup {tmd.title_id}
                 /\ last' = Reply("AddTMD", vectors_ok, arg, "IPC_SUCCESS", 0)
       /\ UNCHANGED <<tickets, import_content, import_tmd, title_dirs, title_content,
                      title_tmd, shared_map, shared_files, m_addtitle_content_id,
                      m_addtitle_content_buffer, export_session, crashed>>

\* ES::AddTMD: the staged TMD is replaced before it is validated.
AddTMD(vectors_ok, tmd) ==
  LET arg == <<tmd>> IN
  /\ ~crashed
  /\ IF ~vectors_ok
       THEN Refuse("AddTMD", vectors_ok, arg, "ES_PARAMETER_SIZE_OR_ALIGNMENT")
     ELSE
       /\ m_addtitle_tmd' = tmd
       /\ IF ~tmd.valid
            THEN /\ last' = Reply("AddTMD", vectors_ok, arg, "ES_INVALID_TMD", 0)
                 /\ UNCHANGED uid_sys
            ELSE /\ uid_sys' = uid_sys \cup {tmd.title_id}
                 /\ last' = Reply("AddTMD", vectors_ok, arg, "IPC_SUCCESS", 0)
       /\ UNCHANGED <<tickets, import_content, import_tmd, title_dirs, title_content,
                      title_tmd, shared_map, shared_files, m_addtitle_content_id,
                      m_addtitle_content_buffer, export_session, crashed>>

\* ES::AddTitleStart: as AddTMD; the other vectors are not used.
AddTitleStart(vectors_ok, tmd) ==
  LET arg == <<tmd>> IN
  /\ ~crashed
  /\ IF ~vectors_ok
       THEN Refuse("AddTitleStart", vectors_ok, arg, "ES_PARAMETER_SIZE_OR_ALIGNMENT")
     ELSE
       /\ m_addtitle_tmd' = tmd
       /\ IF ~tmd.valid
            THEN /\ last' = Reply("AddTitleStart", vectors_ok, arg, "ES_INVALID_TMD", 0)
                 /\ UNCHANGED uid_sys
            ELSE /\ uid_sys' = uid_sys \cup {tmd.title_id}
                 /\ last' = Reply("AddTitleStart", vectors_ok, arg, "IPC_SUCCESS", 0)
       /\ UNCHANGED <<tickets, import_content, import_tmd, title_dirs, title_content,
                      title_tmd, shared_map, shared_files, m_addtitle_content_id,
                      m_addtitle_content_buffer, export_session, crashed>>

\* ES::AddContentStart without the test for a content already open.
AddContentStart_Reopens(vectors_ok, title_id, content_id) ==
  LET arg == <<title_id, content_id>> IN
  /\ ~crashed
  /\ IF ~vectors_ok
       THEN Refuse("AddContentStart", vectors_ok, arg, "ES_PARAMETER_SIZE_OR_ALIGNMENT")
     ELSE
       /\ m_addtitle_content_id' = content_id
       /\ m_addtitle_content_buffer' = <<>>
       /\ last' = IF ~m_addtitle_tmd.valid
                    THEN Reply("AddContentStart", vectors_ok, arg, "ES_PARAMETER_SIZE_OR_ALIGNMENT", 0)
                    ELSE Reply("AddContentStart", vectors_ok, arg, "IPC_SUCCESS", 0)
       /\ UNCHANGED <<nand, m_addtitle_tmd, export_session, crashed>>

\* ES::AddContentStart: the content id is recorded and the buffer cleared before
\* the staged TMD is looked at; a title id other than the TMD's is only logged.
AddContentStart(vectors_ok, title_id, content_id) ==
  LET arg == <<title_id, content_id>> IN
  /\ ~crashed
  /\ IF ~vectors_ok
       THEN Refuse("AddContentStart", vectors_ok, arg, "ES_PARAMETER_SIZE_OR_ALIGNMENT")
     ELSE IF m_addtitle_content_id # NO_CONTENT
       THEN Refuse("AddContentStart", vectors_ok, arg, "ES_WRITE_FAILURE")
     ELSE
       /\ m_addtitle_content_id' = content_id
       /\ m_addtitle_content_buffer' = <<>>
       /\ last' = IF ~m_addtitle_tmd.valid
                    THEN Reply("AddContentStart", vectors_ok, arg, "ES_PARAMETER_SIZE_OR_ALIGNMENT", 0)
                    ELSE Reply("AddContentStart", vectors_ok, arg, "IPC_SUCCESS", 0)
       /\ UNCHANGED <<nand, m_addtitle_tmd, export_session, crashed>>

\* ES::AddContentData: the bytes are appended whatever the state of the session.
AddContentData(vectors_ok, content_fd, data) ==
  LET arg == <<content_fd, data>> IN
  /\ ~crashed
  /\ IF ~vectors_ok
       THEN Refuse("AddContentData", vectors_ok, arg, "ES_PARAMETER_SIZE_OR_ALIGNMENT")
     ELSE
       /\ m_addtitle_content_buffer' = m_addtitle_content_buffer \o data
       /\ last' = Reply("AddContentData", vectors_ok, arg, "IPC_SUCCESS", 0)
       /\ UNCHANGED <<nand, m_addtitle_tmd, m_addtitle_content_id, export_session, crashed>>

\* The bytes CheckIfContentHashMatches and WriteBytes read: info.size bytes from
\* content.data().  When the vector is shorter they read past its end; garbage
\* is what lies there.
ReadSize(content, size, garbage) ==
  IF size <= Len(content) THEN SubSeq(content, 1, size)
  ELSE content \o [i \in 1..(size - Len(content)) |-> garbage]

\* CheckIfContentHashMatches with the comparison of the digests left out.
CheckIfContentHashMatches_Skipped(content, info, garbage) ==
  Sha1(ReadSize(content, info.size, garbage)) \in 0..65520

\* CheckIfContentHashMatches
CheckIfContentHashMatches(content, info, garbage) ==
  /\ info.size_hi = 0
  /\ Sha1(ReadSize(content, info.size, garbage)) = info.sha1

\* GetImportContentPath: the key of the temporary file of a content.
GetImportContentPath(tmd, content_id) == <<tmd.title_id, content_id>>

\* The decrypted accumulation buffer of AddContentFinish (decrypted_data).
DecryptedData(ticket, content_info, buffer) ==
  AesCbcDecrypt(ticket.title_key, ContentIV(content_info.index), buffer).out

\* ES::AddContentFinish looking the content up before the ticket.
AddContentFinish_ContentFirst(vectors_ok, content_fd, oob, write) ==
  LET arg == <<content_fd>>
      ticket == FindSignedTicket(m_addtitle_tmd.title_id)
      content_info == FindContentById(m_addtitle_tmd, m_addtitle_content_id)
      decrypted_data == DecryptedData(ticket, content_info, m_addtitle_content_buffer)
      tmp_path == GetImportContentPath(m_addtitle_tmd, m_addtitle_content_id)
  IN
  /\ ~crashed
  /\ IF ~vectors_ok \/ m_addtitle_content_id = NO_CONTENT \/ ~m_addtitle_tmd.valid
       THEN Refuse("AddContentFinish", vectors_ok, arg, "ES_PARAMETER_SIZE_OR_ALIGNMENT")
     ELSE IF ~HasContentId(m_addtitle_tmd, m_addtitle_content_id)
       THEN Refuse("AddContentFinish", vectors_ok, arg, "ES_INVALID_TMD")
     ELSE IF ~ticket.valid
       THEN Refuse("AddContentFinish", vectors_ok, arg, "ES_NO_TICKET_INSTALLED")
     ELSE IF (content_info.size_hi > 0 \/ content_info.size > Len(decrypted_data))
             /\ oob.crash
       THEN /\ crashed' = TRUE
            /\ last' = Reply("AddContentFinish", vectors_ok, arg, "CRASH", 0)
            /\ UNCHANGED <<nand, import_session, export_session>>
     ELSE IF ~CheckIfContentHashMatches(decrypted_data, content_info, oob.garbage)
       THEN Refuse("AddContentFinish", vectors_ok, arg, "ES_HASH_DOESNT_MATCH")
     ELSE IF write = "open_failed"
       THEN Refuse("AddContentFinish", vectors_ok, arg, "ES_WRITE_FAILURE")
     ELSE IF write = "write_failed"
       THEN /\ import_content' = Put(import_content, tmp_path, <<>>)
            /\ last' = Reply("AddContentFinish", vectors_ok, arg, "ES_WRITE_FAILURE", 0)
            /\ UNCHANGED <<tickets, uid_sys, import_tmd, title_dirs, title_content,
                           title_tmd, shared_map, shared_files, import_session,
                           export_session, crashed>>
     ELSE
       /\ import_content' =
            Put(import_content, tmp_path,
                ReadSize(decrypted_data, content_info.size, oob.garbage))
       /\ m_addtitle_content_id' = NO_CONTENT
       /\ last' = Reply("AddContentFinish", vectors_ok, arg, "IPC_SUCCESS", 0)
       /\ UNCHANGED <<tickets, uid_sys, import_tmd, title_dirs, title_content,
                      title_tmd, shared_map, shared_files, m_addtitle_tmd,
                      m_addtitle_content_buffer, export_session, crashed>>

\* ES::AddContentFinish.  oob is what reading past the end of decrypted_data
\* yields when the record's size exceeds the buffer (a crash, or garbage bytes);
\* write is the outcome of opening and writing the temporary file.
AddContentFinish(vectors_ok, content_fd, oob, write) ==
  LET arg == <<content_fd>>
      ticket == FindSignedTicket(m_addtitle_tmd.title_id)
      content_info == FindContentById(m_addtitle_tmd, m_addtitle_content_id)
      decrypted_data == DecryptedData(ticket, content_info, m_addtitle_content_buffer)
      tmp_path == GetImportContentPath(m_addtitle_tmd, m_addtitle_content_id)
  IN
  /\ ~crashed
  /\ IF ~vectors_ok \/ m_addtitle_content_id = NO_CONTENT \/ ~m_addtitle_tmd.valid
       THEN Refuse("AddContentFinish", vectors_ok, arg, "ES_PARAMETER_SIZE_OR_ALIGNMENT")
     ELSE IF ~ticket.valid
       THEN Refuse("AddContentFinish", vectors_ok, arg, "ES_NO_TICKET_INSTALLED")
     ELSE IF ~HasContentId(m_addtitle_tmd, m_addtitle_content_id)
       THEN Refuse("AddContentFinish", vectors_ok, arg, "ES_INVALID_TMD")
     ELSE IF (content_info.size_hi > 0 \/ content_info.size > Len(decrypted_data))
             /\ oob.crash
       THEN /\ crashed' = TRUE
            /\ last' = Reply("AddContentFinish", vectors_ok, arg, "CRASH", 0)
            /\ UNCHANGED <<nand, import_session, export_session>>
     ELSE IF ~CheckIfContentHashMatches(decrypted_data, content_info, oob.garbage)
       THEN Refuse("AddContentFinish", vectors_ok, arg, "ES_HASH_DOESNT_MATCH")
     ELSE IF write = "open_failed"
       THEN Refuse("AddContentFinish", vectors_ok, arg, "ES_WRITE_FAILURE")
     ELSE IF write = "write_failed"
       THEN /\ import_content' = Put(import_content, tmp_path, <<>>)
            /\ last' = Reply("AddContentFinish", vectors_ok, arg, "ES_WRITE_FAILURE", 0)
            /\ UNCHANGED <<tickets, uid_sys, import_tmd, title_dirs, title_content,
                           title_tmd, shared_map, shared_files, import_session,
                           export_session, crashed>>
     ELSE
       /\ import_content' =
            Put(import_content, tmp_path,
                ReadSize(decrypted_data, content_info.size, oob.garbage))
       /\ m_addtitle_content_id' = NO_CONTENT
       /\ last' = Reply("AddContentFinish", vectors_ok, arg, "IPC_SUCCESS", 0)
       /\ UNCHANGED <<tickets, uid_sys, import_tmd, title_dirs, title_content,
                      title_tmd, shared_map, shared_files, m_addtitle_tmd,
                      m_addtitle_content_buffer, export_session, crashed>>

\* SharedContentMap::AddSharedContent: the entry of a SHA-1 in content.map,
\* appended when the map has none; returns the map and the entry's number.
SharedIndex(map, sha1) ==
  IF \E k \in 1..Len(map) : map[k] = sha1
    THEN CHOOSE k \in 1..Len(map) : map[k] = sha1 /\ \A j \in 1..(k - 1) : map[j] # sha1
    ELSE Len(map) + 1

AddSharedContent(map, sha1) ==
  IF \E k \in 1..Len(map) : map[k] = sha1 THEN map ELSE Append(map, sha1)

\* The files of the NAND that AddTitleFinish works on.
NandFiles ==
  [import_content |-> import_content, import_tmd |-> import_tmd,
   title_dirs |-> title_dirs, title_content |-> title_content,
   shared_map |-> shared_map, shared_files |-> shared_files]

\* AbortImport: deletes the processed paths, then the title's import directory.
AbortImport(fs, title_id, processed_paths) ==
  [fs EXCEPT
     !.title_content = Drop(@, processed_paths),
     !.import_content = Drop(@, {q \in DOMAIN @ : q[1] = title_id}),
     !.import_tmd = Drop(@, {title_id})]

\* The loop of ES::AddTitleFinish over the contents of the staged TMD, from
\* content k on.  fail_at is the position of the content whose RenameSync fails
\* (0: none does).  Returns [fs, ok].
RECURSIVE MoveContents(_, _, _, _, _)
MoveContents(tmd, k, fs, processed_paths, fail_at) ==
  IF k > Len(tmd.contents) THEN [fs |-> fs, ok |-> TRUE]
  ELSE
    LET content_info == tmd.contents[k]
        source == GetImportContentPath(tmd, content_info.id)
    IN
    IF source \notin DOMAIN fs.import_content
      THEN MoveContents(tmd, k + 1, fs, processed_paths, fail_at)
    ELSE
      LET shared == content_info.shared
          index == SharedIndex(fs.shared_map, content_info.sha1)
          \* AddSharedContent, CreateFullPath(content_path)
          fs1 == IF shared
                   THEN [fs EXCEPT !.shared_map = AddSharedContent(@, content_info.sha1)]
                   ELSE [fs EXCEPT !.title_dirs = @ \cup {tmd.title_id}]
          \* RenameSync(source, content_path)
          fs2 == IF shared
                   THEN [fs1 EXCEPT
                           !.shared_files = Put(@, index, fs.import_content[source]),
                           !.import_content = Drop(@, {source})]
                   ELSE [fs1 EXCEPT
                           !.title_content = Put(@, source, fs.import_content[source]),
                           !.import_content = Drop(@, {source})]
      IN
      IF k = fail_at
        THEN [fs |-> AbortImport(fs1, tmd.title_id, processed_paths), ok |-> FALSE]
        ELSE MoveContents(tmd, k + 1, fs2,
                          IF shared THEN processed_paths ELSE processed_paths \cup {source},
                          fail_at)

\* ES::AddTitleFinish.  tmd_write_ok and tmd_move_ok are the outcomes of
\* WriteImportTMD and of the rename in MoveImportTMDToTitleDirectory, which also
\* fails when the title's content directory does not exist.
AddTitleFinish(vectors_ok, fail_at, tmd_write_ok, tmd_move_ok) ==
  LET arg == <<>>
      tmd == m_addtitle_tmd
      moved == MoveContents(tmd, 1, NandFiles, {}, fail_at)
      fs == moved.fs
      written == moved.ok /\ tmd_write_ok
      renamed == written /\ tmd_move_ok /\ tmd.title_id \in fs.title_dirs
  IN
  /\ ~crashed
  /\ IF ~vectors_ok \/ ~m_addtitle_tmd.valid
       THEN Refuse("AddTitleFinish", vectors_ok, arg, "ES_PARAMETER_SIZE_OR_ALIGNMENT")
     ELSE
       /\ import_content' = fs.import_content
       /\ title_dirs' = fs.title_dirs
       /\ title_content' = fs.title_content
       /\ shared_map' = fs.shared_map
       /\ shared_files' = fs.shared_files
       /\ import_tmd' =
            IF renamed THEN Drop(fs.import_tmd, {tmd.title_id})
            ELSE IF written THEN Put(fs.import_tmd, tmd.title_id, tmd)
            ELSE fs.import_tmd
       /\ title_tmd' = IF renamed THEN Put(title_tmd, tmd.title_id, tmd) ELSE title_tmd
       /\ m_addtitle_tmd' = IF renamed THEN EmptyTMD ELSE m_addtitle_tmd
       /\ last' = Reply("AddTitleFinish", vectors_ok, arg,
                        IF renamed THEN "IPC_SUCCESS" ELSE "ES_WRITE_FAILURE", 0)
       /\ UNCHANGED <<tickets, uid_sys, m_addtitle_content_id,
                      m_addtitle_content_buffer, export_session, crashed>>

\* ES::AddTitleCancel
AddTitleCancel(vectors_ok) ==
  LET arg == <<>>
      fs == AbortImport(NandFiles, m_addtitle_tmd.title_id, {})
  IN
  /\ ~crashed
  /\ IF ~vectors_ok \/ ~m_addtitle_tmd.valid
       THEN Refuse("AddTitleCancel", vectors_ok, arg, "ES_PARAMETER_SIZE_OR_ALIGNMENT")
     ELSE
       /\ import_content' = fs.import_content
       /\ import_tmd' = fs.import_tmd
       /\ m_addtitle_tmd' = EmptyTMD
       /\ last' = Reply("AddTitleCancel", vectors_ok, arg, "IPC_SUCCESS", 0)
       /\ UNCHANGED <<tickets, uid_sys, title_dirs, title_content, title_tmd,
                      shared_map, shared_files, m_addtitle_content_id,
                      m_addtitle_content_buffer, export_session, crashed>>

\* ------------------------------------------------------------------ deletion

\* CanDeleteTitle with the threshold test off by one.
CanDeleteTitle_OffByOne(title_id) ==
  title_id.hi # SYSTEM_TITLE_HIGH \/ title_id.lo >= SYSTEM_TITLE_LOW_MAX

\* CanDeleteTitle: IOS only allows deleting non-system titles (or a system
\* title higher than 00000001-00000101).
CanDeleteTitle(title_id) ==
  title_id.hi # SYSTEM_TITLE_HIGH \/ title_id.lo > SYSTEM_TITLE_LOW_MAX

\* The files under a title's content directory.
TitleContentPaths(title_id) == {q \in DOMAIN title_content : q[1] = title_id}

\* CNANDContentManager::RemoveTitle: succeeds for an installed title and
\* deletes the private contents its TMD lists.
CanRemoveTitle(title_id) == title_id \in DOMAIN title_tmd

RemoveTitle(title_id) ==
  Drop(title_content,
       {q \in TitleContentPaths(title_id) :
          \E k \in 1..Len(title_tmd[title_id].contents) :
             /\ title_tmd[title_id].contents[k].id = q[2]
             /\ ~title_tmd[title_id].contents[k].shared})

\* ES::DeleteTitle deleting the shared pool along with the title.
DeleteTitle_RemovesSharedContents(vectors_ok, title_id, delete_ok) ==
  LET arg == <<title_id>> IN
  /\ ~crashed
  /\ IF ~vectors_ok \/ ~CanDeleteTitle(title_id)
       THEN Refuse("DeleteTitle", vectors_ok, arg, "ES_PARAMETER_SIZE_OR_ALIGNMENT")
     ELSE IF title_id \notin title_dirs \/ ~CanRemoveTitle(title_id)
       THEN Refuse("DeleteTitle", vectors_ok, arg, "FS_ENOENT")
     ELSE
       /\ title_content' = Drop(title_content, TitleContentPaths(title_id))
       /\ title_tmd' = IF delete_ok THEN Drop(title_tmd, {title_id}) ELSE title_tmd
       /\ title_dirs' = IF delete_ok THEN title_dirs \ {title_id} ELSE title_dirs
       /\ shared_files' = NoFiles
       /\ last' = Reply("DeleteTitle", vectors_ok, arg,
                        IF delete_ok THEN "IPC_SUCCESS" ELSE "FS_EACCESS", 0)
       /\ UNCHANGED <<tickets, uid_sys, import_content, import_tmd, shared_map,
                      import_session, export_session, crashed>>

\* ES::DeleteTitle.  delete_ok is the outcome of File::DeleteDirRecursively.
DeleteTitle(vectors_ok, title_id, delete_ok) ==
  LET arg == <<title_id>> IN
  /\ ~crashed
  /\ IF ~vectors_ok \/ ~CanDeleteTitle(title_id)
       THEN Refuse("DeleteTitle", vectors_ok, arg, "ES_PARAMETER_SIZE_OR_ALIGNMENT")
     ELSE IF title_id \notin title_dirs \/ ~CanRemoveTitle(title_id)
       THEN Refuse("DeleteTitle", vectors_ok, arg, "FS_ENOENT")
     ELSE
       /\ title_content' = IF delete_ok THEN Drop(title_content, TitleContentPaths(title_id))
                           ELSE RemoveTitle(title_id)
       /\ title_tmd' = IF delete_ok THEN Drop(title_tmd, {title_id}) ELSE title_tmd
       /\ title_dirs' = IF delete_ok THEN title_dirs \ {title_id} ELSE title_dirs
       /\ last' = Reply("DeleteTitle", vectors_ok, arg,
                        IF delete_ok THEN "IPC_SUCCESS" ELSE "FS_EACCESS", 0)
       /\ UNCHANGED <<tickets, uid_sys, import_content, import_tmd, shared_map,
                      shared_files, import_session, export_session, crashed>>

\* ES::DeleteTicket
DeleteTicket(vectors_ok, title_id) ==
  LET arg == <<title_id>> IN
  /\ ~crashed
  /\ IF ~vectors_ok \/ ~HasTicket(title_id)
       THEN Refuse("DeleteTicket", vectors_ok, arg, "ES_PARAMETER_SIZE_OR_ALIGNMENT")
     ELSE
       /\ tickets' = Drop(tickets, {title_id})
       /\ last' = Reply("DeleteTicket", vectors_ok, arg, "IPC_SUCCESS", 0)
       /\ UNCHANGED <<uid_sys, import_content, import_tmd, title_dirs, title_content,
                      title_tmd, shared_map, shared_files, import_session,
                      export_session, crashed>>

\* ES::DeleteTitleContent
DeleteTitleContent(vectors_ok, title_id) ==
  LET arg == <<title_id>> IN
  /\ ~crashed
  /\ IF ~vectors_ok \/ ~CanRemoveTitle(title_id)
       THEN Refuse("DeleteTitleContent", vectors_ok, arg, "ES_PARAMETER_SIZE_OR_ALIGNMENT")
     ELSE
       /\ title_content' = RemoveTitle(title_id)
       /\ last' = Reply("DeleteTitleContent", vectors_ok, arg, "IPC_SUCCESS", 0)
       /\ UNCHANGED <<tickets, uid_sys, import_content, import_tmd, title_dirs,
                      title_tmd, shared_map, shared_files, import_session,
                      export_session, crashed>>

\* ------------------------------------------------------------------ content loader

\* IOS::ES::FindInstalledTMD
FindInstalledTMD(title_id) ==
  IF title_id \in DOMAIN title_tmd THEN title_tmd[title_id] ELSE EmptyTMD

\* AccessContentDevice(title_id).GetContentByID(content_id) # nullptr
HasContentByID(title_id, content_id) ==
  /\ title_id \in DOMAIN title_tmd
  /\ HasContentId(title_tmd[title_id], content_id)

\* The metadata of that content (m_metadata).
GetContentByID(title_id, content_id) == FindContentById(title_tmd[title_id], content_id)

\* The file behind a content (m_Data): a shared1 file found by SHA-1, or the
\* title's own .app file.
HasContentFile(title_id, metadata) ==
  IF metadata.shared
    THEN \E k \in DOMAIN shared_files : k <= Len(shared_map) /\ shared_map[k] = metadata.sha1
    ELSE <<title_id, metadata.id>> \in DOMAIN title_content

ContentFile(title_id, metadata) ==
  IF metadata.shared
    THEN shared_files[SharedIndex(shared_map, metadata.sha1)]
    ELSE title_content[<<title_id, metadata.id>>]

\* m_Data->GetRange(position, length, buffer)
CanGetRange(title_id, metadata, position, length) ==
  /\ HasContentFile(title_id, metadata)
  /\ position + length <= Len(ContentFile(title_id, metadata))

GetRange(title_id, metadata, position, length) ==
  SubSeq(ContentFile(title_id, metadata), position + 1, position + length)

\* ------------------------------------------------------------------ export session

\* Model bound: the number of export handles open at once.
MaxHandles == 2

\* ES::ExportTitleInit without the test for a session in progress.
ExportTitleInit_Reentrant(vectors_ok, title_id, size_ok) ==
  LET arg == <<title_id>>
      tmd == FindInstalledTMD(title_id)
      ticket == FindSignedTicket(tmd.title_id)
      ctx == m_export_title_context
  IN
  /\ ~crashed
  /\ IF ~vectors_ok
       THEN Refuse("ExportTitleInit", vectors_ok, arg, "ES_PARAMETER_SIZE_OR_ALIGNMENT")
     ELSE IF ~tmd.valid
       THEN Refuse("ExportTitleInit", vectors_ok, arg, "FS_ENOENT")
     ELSE
       /\ m_export_title_context' =
            IF ~ticket.valid \/ ticket.title_id # tmd.title_id
              THEN [ctx EXCEPT !.tmd = tmd]
            ELSE IF ~size_ok
              THEN [ctx EXCEPT !.tmd = tmd, !.title_key = ticket.title_key]
            ELSE [ctx EXCEPT !.tmd = tmd, !.title_key = ticket.title_key, !.valid = TRUE]
       /\ last' = Reply("ExportTitleInit", vectors_ok, arg,
                        IF ~ticket.valid THEN "ES_NO_TICKET_INSTALLED"
                        ELSE IF ticket.title_id # tmd.title_id \/ ~size_ok
                          THEN "ES_PARAMETER_SIZE_OR_ALIGNMENT"
                        ELSE "IPC_SUCCESS", 0)
       /\ UNCHANGED <<nand, import_session, export_stream, crashed>>

\* ES::ExportTitleInit.  size_ok: the io vector has the size of the raw TMD.
ExportTitleInit(vectors_ok, title_id, size_ok) ==
  LET arg == <<title_id>>
      tmd == FindInstalledTMD(title_id)
      ticket == FindSignedTicket(tmd.title_id)
      ctx == m_export_title_context
  IN
  /\ ~crashed
  /\ IF ~vectors_ok \/ ctx.valid
       THEN Refuse("ExportTitleInit", vectors_ok, arg, "ES_PARAMETER_SIZE_OR_ALIGNMENT")
     ELSE IF ~tmd.valid
       THEN Refuse("ExportTitleInit", vectors_ok, arg, "FS_ENOENT")
     ELSE
       /\ m_export_title_context' =
            IF ~ticket.valid \/ ticket.title_id # tmd.title_id
              THEN [ctx EXCEPT !.tmd = tmd]
            ELSE IF ~size_ok
              THEN [ctx EXCEPT !.tmd = tmd, !.title_key = ticket.title_key]
            ELSE [ctx EXCEPT !.tmd = tmd, !.title_key = ticket.title_key, !.valid = TRUE]
       /\ last' = Reply("ExportTitleInit", vectors_ok, arg,
                        IF ~ticket.valid THEN "ES_NO_TICKET_INSTALLED"
                        ELSE IF ticket.title_id # tmd.title_id \/ ~size_ok
                          THEN "ES_PARAMETER_SIZE_OR_ALIGNMENT"
                        ELSE "IPC_SUCCESS", 0)
       /\ UNCHANGED <<nand, import_session, export_stream, crashed>>

\* A handle allocation that counts the open handles instead of scanning for
\* the first free one.
FirstFreeHandle_CountsOpen(contents, cid) == cid + Cardinality(DOMAIN contents)

\* The handle ExportContentBegin allocates: the first cid not in the map.
RECURSIVE FirstFreeHandle(_, _)
FirstFreeHandle(contents, cid) ==
  IF cid \in DOMAIN contents THEN FirstFreeHandle(contents, cid + 1) ELSE cid

\* ES::ExportContentBegin without the test of the session and its title.
ExportContentBegin_NoSessionCheck(vectors_ok, title_id, content_id) ==
  LET arg == <<title_id, content_id>>
      ctx == m_export_title_context
      metadata == GetContentByID(title_id, content_id)
      cid == FirstFreeHandle(ctx.contents, 0)
      content_export == [m_position |-> 0, m_content |-> metadata, m_title_id |-> title_id,
                         iv |-> ContentIV(metadata.index)]
  IN
  /\ ~crashed
  /\ Cardinality(DOMAIN ctx.contents) < MaxHandles
  /\ IF ~vectors_ok
       THEN Refuse("ExportContentBegin", vectors_ok, arg, "ES_PARAMETER_SIZE_OR_ALIGNMENT")
     ELSE IF title_id \notin DOMAIN title_tmd
       THEN Refuse("ExportContentBegin", vectors_ok, arg, "FS_ENOENT")
     ELSE IF ~HasContentByID(title_id, content_id)
       THEN Refuse("ExportContentBegin", vectors_ok, arg, "ES_PARAMETER_SIZE_OR_ALIGNMENT")
     ELSE
       /\ m_export_title_context' = [ctx EXCEPT !.contents = Put(@, cid, content_export)]
       /\ export_stream' = Put(export_stream, cid, [out |-> <<>>, requests |-> <<>>, written |-> <<>>])
       /\ last' = Reply("ExportContentBegin", vectors_ok, arg, "IPC_SUCCESS", cid)
       /\ UNCHANGED <<nand, import_session, crashed>>

\* ES::ExportContentBegin
ExportContentBegin(vectors_ok, title_id, content_id) ==
  LET arg == <<title_id, content_id>>
      ctx == m_export_title_context
      metadata == GetContentByID(title_id, content_id)
      cid == FirstFreeHandle(ctx.contents, 0)
      content_export == [m_position |-> 0, m_content |-> metadata, m_title_id |-> title_id,
                         iv |-> ContentIV(metadata.index)]
  IN
  /\ ~crashed
  /\ Cardinality(DOMAIN ctx.contents) < MaxHandles
  /\ IF ~vectors_ok \/ ~ctx.valid \/ ctx.tmd.title_id # title_id
       THEN Refuse("ExportContentBegin", vectors_ok, arg, "ES_PARAMETER_SIZE_OR_ALIGNMENT")
     ELSE IF title_id \notin DOMAIN title_tmd
       THEN Refuse("ExportContentBegin", vectors_ok, arg, "FS_ENOENT")
     ELSE IF ~HasContentByID(title_id, content_id)
       THEN Refuse("ExportContentBegin", vectors_ok, arg, "ES_PARAMETER_SIZE_OR_ALIGNMENT")
     ELSE
       /\ m_export_title_context' = [ctx EXCEPT !.contents = Put(@, cid, content_export)]
       /\ export_stream' = Put(export_stream, cid, [out |-> <<>>, requests |-> <<>>, written |-> <<>>])
       /\ last' = Reply("ExportContentBegin", vectors_ok, arg, "IPC_SUCCESS", cid)
       /\ UNCHANGED <<nand, import_session, crashed>>

\* m_position >= m_content.size, both u64.  Positions stay below 2^32 here.
PositionAtLeastSize(entry) ==
  entry.m_content.size_hi = 0 /\ entry.m_position >= entry.m_content.size

\* m_position == m_content.size
PositionIsSize(entry) ==
  entry.m_content.size_hi = 0 /\ entry.m_position = entry.m_content.size

\* std::min(static_cast<u32>(size - position), bytes_to_read): the cast keeps
\* the low word of the difference.  When the subtraction borrows from the high
\* word the low word is 2^32 - (position - size), above any request made here.
ReadLength(info, position, bytes_to_read) ==
  IF info.size >= position THEN Min(info.size - position, bytes_to_read)
  ELSE bytes_to_read

\* ES::ExportContentData advancing the position by the padded length.
ExportContentData_AdvancesPadded(vectors_ok, handle, bytes_to_read) ==
  LET arg == <<handle, bytes_to_read>>
      ctx == m_export_title_context
      entry == ctx.contents[handle]
      content == GetContentByID(entry.m_title_id, entry.m_content.id)
      length == ReadLength(entry.m_content, entry.m_position, bytes_to_read)
      buffer == GetRange(entry.m_title_id, content, entry.m_position, length)
      padded == buffer \o Zeros(AlignUp(length, EXPORT_ALIGN) - length)
      crypt == AesCbcEncrypt(ctx.title_key, entry.iv, padded)
  IN
  /\ ~crashed
  /\ IF ~vectors_ok \/ bytes_to_read = 0
       THEN Refuse("ExportContentData", vectors_ok, arg, "ES_PARAMETER_SIZE_OR_ALIGNMENT")
     ELSE IF ~ctx.valid \/ handle \notin DOMAIN ctx.contents
       THEN Refuse("ExportContentData", vectors_ok, arg, "ES_PARAMETER_SIZE_OR_ALIGNMENT")
     ELSE IF PositionAtLeastSize(entry)
       THEN Refuse("ExportContentData", vectors_ok, arg, "ES_PARAMETER_SIZE_OR_ALIGNMENT")
     ELSE IF ~HasContentByID(entry.m_title_id, entry.m_content.id)
       THEN /\ crashed' = TRUE
            /\ last' = Reply("ExportContentData", vectors_ok, arg, "CRASH", 0)
            /\ UNCHANGED <<nand, import_session, export_session>>
     ELSE IF ~CanGetRange(entry.m_title_id, content, entry.m_position, length)
       THEN Refuse("ExportContentData", vectors_ok, arg, "ES_READ_LESS_DATA_THAN_EXPECTED")
     ELSE IF crypt.ret # 0
       THEN Refuse("ExportContentData", vectors_ok, arg, "ES_PARAMETER_SIZE_OR_ALIGNMENT")
     ELSE
       /\ m_export_title_context' =
            [ctx EXCEPT !.contents[handle].iv = crypt.iv,
                        !.contents[handle].m_position = @ + Len(padded)]
       /\ export_stream' =
            [export_stream EXCEPT
               ![handle].out = @ \o Take(crypt.out, bytes_to_read),
               ![handle].requests = Append(@, bytes_to_read),
               ![handle].written = crypt.out]
       /\ last' = Reply("ExportContentData", vectors_ok, arg, "IPC_SUCCESS", 0)
       /\ UNCHANGED <<nand, import_session, crashed>>

\* ES::ExportContentData advancing the position before the read from the store.
ExportContentData_AdvancesFirst(vectors_ok, handle, bytes_to_read) ==
  LET arg == <<handle, bytes_to_read>>
      ctx == m_export_title_context
      entry == ctx.contents[handle]
      content == GetContentByID(entry.m_title_id, entry.m_content.id)
      length == ReadLength(entry.m_content, entry.m_position, bytes_to_read)
      buffer == GetRange(entry.m_title_id, content, entry.m_position, length)
      padded == buffer \o Zeros(AlignUp(length, EXPORT_ALIGN) - length)
      crypt == AesCbcEncrypt(ctx.title_key, entry.iv, padded)
  IN
  /\ ~crashed
  /\ IF ~vectors_ok \/ bytes_to_read = 0
       THEN Refuse("ExportContentData", vectors_ok, arg, "ES_PARAMETER_SIZE_OR_ALIGNMENT")
     ELSE IF ~ctx.valid \/ handle \notin DOMAIN ctx.contents
       THEN Refuse("ExportContentData", vectors_ok, arg, "ES_PARAMETER_SIZE_OR_ALIGNMENT")
     ELSE IF PositionAtLeastSize(entry)
       THEN Refuse("ExportContentData", vectors_ok, arg, "ES_PARAMETER_SIZE_OR_ALIGNMENT")
     ELSE IF ~HasContentByID(entry.m_title_id, entry.m_content.id)
       THEN /\ crashed' = TRUE
            /\ last' = Reply("ExportContentData", vectors_ok, arg, "CRASH", 0)
            /\ UNCHANGED <<nand, import_session, export_session>>
     ELSE IF ~CanGetRange(entry.m_title_id, content, entry.m_position, length)
       THEN /\ m_export_title_context' =
                 [ctx EXCEPT !.contents[handle].m_position = @ + length]
            /\ last' = Reply("ExportContentData", vectors_ok, arg,
                             "ES_READ_LESS_DATA_THAN_EXPECTED", 0)
            /\ UNCHANGED <<nand, import_session, export_stream, crashed>>
     ELSE IF crypt.ret # 0
       THEN Refuse("ExportContentData", vectors_ok, arg, "ES_PARAMETER_SIZE_OR_ALIGNMENT")
     ELSE
       /\ m_export_title_context' =
            [ctx EXCEPT !.contents[handle].iv = crypt.iv,
                        !.contents[handle].m_position = @ + length]
       /\ export_stream' =
            [export_stream EXCEPT
               ![handle].out = @ \o Take(crypt.out, bytes_to_read),
               ![handle].requests = Append(@, bytes_to_read),
               ![handle].written = crypt.out]
       /\ last' = Reply("ExportContentData", vectors_ok, arg, "IPC_SUCCESS", 0)
       /\ UNCHANGED <<nand, import_session, crashed>>

\* ES::ExportContentData.  The content is looked up again and used unchecked;
\* the process dies when the title no longer has it.
ExportContentData(vectors_ok, handle, bytes_to_read) ==
  LET arg == <<handle, bytes_to_read>>
      ctx == m_export_title_context
      entry == ctx.contents[handle]
      content == GetContentByID(entry.m_title_id, entry.m_content.id)
      length == ReadLength(entry.m_content, entry.m_position, bytes_to_read)
      buffer == GetRange(entry.m_title_id, content, entry.m_position, length)
      padded == buffer \o Zeros(AlignUp(length, EXPORT_ALIGN) - length)
      crypt == AesCbcEncrypt(ctx.title_key, entry.iv, padded)
  IN
  /\ ~crashed
  /\ IF ~vectors_ok \/ bytes_to_read = 0
       THEN Refuse("ExportContentData", vectors_ok, arg, "ES_PARAMETER_SIZE_OR_ALIGNMENT")
     ELSE IF ~ctx.valid \/ handle \notin DOMAIN ctx.contents
       THEN Refuse("ExportContentData", vectors_ok, arg, "ES_PARAMETER_SIZE_OR_ALIGNMENT")
     ELSE IF PositionAtLeastSize(entry)
       THEN Refuse("ExportContentData", vectors_ok, arg, "ES_PARAMETER_SIZE_OR_ALIGNMENT")
     ELSE IF ~HasContentByID(entry.m_title_id, entry.m_content.id)
       THEN /\ crashed' = TRUE
            /\ last' = Reply("ExportContentData", vectors_ok, arg, "CRASH", 0)
            /\ UNCHANGED <<nand, import_session, export_session>>
     ELSE IF ~CanGetRange(entry.m_title_id, content, entry.m_position, length)
       THEN Refuse("ExportContentData", vectors_ok, arg, "ES_READ_LESS_DATA_THAN_EXPECTED")
     ELSE IF crypt.ret # 0
       THEN Refuse("ExportContentData", vectors_ok, arg, "ES_PARAMETER_SIZE_OR_ALIGNMENT")
     ELSE
       /\ m_export_title_context' =
            [ctx EXCEPT !.contents[handle].iv = crypt.iv,
                        !.contents[handle].m_position = @ + length]
       /\ export_stream' =
            [export_stream EXCEPT
               ![handle].out = @ \o Take(crypt.out, bytes_to_read),
               ![handle].requests = Append(@, bytes_to_read),
               ![handle].written = crypt.out]
       /\ last' = Reply("ExportContentData", vectors_ok, arg, "IPC_SUCCESS", 0)
       /\ UNCHANGED <<nand, import_session, crashed>>

\* ES::ExportContentEnd erasing every entry of the handle map.
ExportContentEnd_ClosesAll(vectors_ok, handle) ==
  LET arg == <<handle>>
      ctx == m_export_title_context
      entry == ctx.contents[handle]
  IN
  /\ ~crashed
  /\ IF ~vectors_ok \/ ~ctx.valid \/ handle \notin DOMAIN ctx.contents
       THEN Refuse("ExportContentEnd", vectors_ok, arg, "ES_PARAMETER_SIZE_OR_ALIGNMENT")
     ELSE IF ~PositionIsSize(entry)
       THEN Refuse("ExportContentEnd", vectors_ok, arg, "ES_PARAMETER_SIZE_OR_ALIGNMENT")
     ELSE IF ~HasContentByID(entry.m_title_id, entry.m_content.id)
       THEN /\ crashed' = TRUE
            /\ last' = Reply("ExportContentEnd", vectors_ok, arg, "CRASH", 0)
            /\ UNCHANGED <<nand, import_session, export_session>>
     ELSE
       /\ m_export_title_context' = [ctx EXCEPT !.contents = NoFiles]
       /\ export_stream' = NoFiles
       /\ last' = Reply("ExportContentEnd", vectors_ok, arg, "IPC_SUCCESS", 0)
       /\ UNCHANGED <<nand, import_session, crashed>>

\* ES::ExportContentEnd
ExportContentEnd(vectors_ok, handle) ==
  LET arg == <<handle>>
      ctx == m_export_title_context
      entry == ctx.contents[handle]
  IN
  /\ ~crashed
  /\ IF ~vectors_ok \/ ~ctx.valid \/ handle \notin DOMAIN ctx.contents
       THEN Refuse("ExportContentEnd", vectors_ok, arg, "ES_PARAMETER_SIZE_OR_ALIGNMENT")
     ELSE IF ~PositionIsSize(entry)
       THEN Refuse("ExportContentEnd", vectors_ok, arg, "ES_PARAMETER_SIZE_OR_ALIGNMENT")
     ELSE IF ~HasContentByID(entry.m_title_id, entry.m_content.id)
       THEN /\ crashed' = TRUE
            /\ last' = Reply("ExportContentEnd", vectors_ok, arg, "CRASH", 0)
            /\ UNCHANGED <<nand, import_session, export_session>>
     ELSE
       /\ m_export_title_context' = [ctx EXCEPT !.contents = Drop(@, {handle})]
       /\ export_stream' = Drop(export_stream, {handle})
       /\ last' = Reply("ExportContentEnd", vectors_ok, arg, "IPC_SUCCESS", 0)
       /\ UNCHANGED <<nand, import_session, crashed>>

\* ES::ExportTitleDone resetting the whole context, open handles included.
ExportTitleDone_ClosesHandles ==
  /\ ~crashed
  /\ IF ~m_export_title_context.valid
       THEN Refuse("ExportTitleDone", TRUE, <<>>, "ES_PARAMETER_SIZE_OR_ALIGNMENT")
     ELSE
       /\ m_export_title_context' =
            [m_export_title_context EXCEPT !.valid = FALSE, !.contents = NoFiles]
       /\ export_stream' = NoFiles
       /\ last' = Reply("ExportTitleDone", TRUE, <<>>, "IPC_SUCCESS", 0)
       /\ UNCHANGED <<nand, import_session, crashed>>

\* ES::ExportTitleDone
ExportTitleDone ==
  LET arg == <<>>
      vectors_ok == TRUE
  IN
  /\ ~crashed
  /\ IF ~m_export_title_context.valid
       THEN Refuse("ExportTitleDone", vectors_ok, arg, "ES_PARAMETER_SIZE_OR_ALIGNMENT")
     ELSE
       /\ m_export_title_context' = [m_export_title_context EXCEPT !.valid = FALSE]
       /\ last' = Reply("ExportTitleDone", vectors_ok, arg, "IPC_SUCCESS", 0)
       /\ UNCHANGED <<nand, import_session, export_stream, crashed>>

\* ------------------------------------------------------------------ the callers' inputs

\* Title ids: two ordinary titles, the highest system title that cannot be
\* deleted (00000001-00000101) and the lowest that can (00000001-00000102).
TitleA == TitleId(65537, 1)

TitleB == TitleId(65537, 2)

TitleSys == TitleId(SYSTEM_TITLE_HIGH, SYSTEM_TITLE_LOW_MAX)

TitleSys2 == TitleId(SYSTEM_TITLE_HIGH, SYSTEM_TITLE_LOW_MAX + 1)

KeyOf(title_id) == [i \in 1..AES_BLOCK |-> (7 * i + 50 * title_id.lo + title_id.hi) % 256]

\* Plaintexts of contents: size bytes, patterned, the last four zero.
Plain(seed, size) == [i \in 1..size |-> IF i <= size - 4 THEN (seed + 13 * i) % 256 ELSE 0]

\* A content record for a plaintext.
ContentFor(id, index, plain, shared) == Content(id, index, Len(plain), Sha1(plain), shared)

\* What an installer sends for a content: the plaintext padded with zeros to the
\* transfer alignment, encrypted with the title key and the content's IV.
Payload(title_id, index, plain) ==
  AesCbcEncrypt(KeyOf(title_id), ContentIV(index),
                plain \o Zeros(AlignUp(Len(plain), EXPORT_ALIGN) - Len(plain))).out

PlainA0 == Plain(10, 20)

PlainA2 == Plain(30, 40)

PlainShared == Plain(90, 16)

PlainB1 == Plain(60, 20)

\* Title A: a private content, a shared content, a second private content.
TmdA ==
  TMD(TitleA, <<ContentFor(0, 0, PlainA0, FALSE), ContentFor(1, 1, PlainShared, TRUE),
                ContentFor(2, 258, PlainA2, FALSE)>>)

\* System titles 00000001-00000101 and 00000001-00000102: one private content each.
PlainSys == Plain(120, 20)

TmdSys == TMD(TitleSys, <<ContentFor(0, 0, PlainSys, FALSE)>>)

TmdSys2 == TMD(TitleSys2, <<ContentFor(0, 0, PlainSys, FALSE)>>)

\* Title B: the same shared content (same SHA-1) and a private content.
TmdB ==
  TMD(TitleB, <<ContentFor(0, 0, PlainShared, TRUE), ContentFor(1, 1, PlainB1, FALSE)>>)

\* Model bound: the accumulation buffer holds at most this many AES blocks.
MaxBufferBlocks == 2

TicketInputs ==
  {Ticket(TitleA, 0, KeyOf(TitleA)),
   Ticket(TitleB, 0, KeyOf(TitleB)),
   Ticket(TitleA, LocalDeviceId, XorBlock(KeyOf(TitleA), DeviceKey)),
   Ticket(TitleB, LocalDeviceId, XorBlock(KeyOf(TitleB), DeviceKey)),
   Ticket(TitleA, LocalDeviceId + 1, KeyOf(TitleA)),
   Ticket(TitleB, LocalDeviceId + 1, KeyOf(TitleB)),
   MalformedTicket}

TmdInputs == {TmdA, TmdB, MalformedTMD}

TitleInputs == {TitleA, TitleB}

ContentIdInputs == {0, 1, 2, 3, NO_CONTENT}

\* Chunks of content data: whole payloads, and one that belongs to no content.
DataInputs ==
  {Payload(TitleA, 0, PlainA0), Payload(TitleA, 1, PlainShared),
   Payload(TitleA, 258, PlainA2), Payload(TitleB, 0, PlainShared),
   Payload(TitleB, 1, PlainB1), [i \in 1..AES_BLOCK |-> 255]}

\* Reading past the end of the decrypted buffer: a crash, or garbage bytes.
OobOutcomes ==
  {[crash |-> TRUE, garbage |-> 0], [crash |-> FALSE, garbage |-> 0],
   [crash |-> FALSE, garbage |-> 205]}

WriteOutcomes == {"ok", "open_failed", "write_failed"}

RequestLengths == {0, 16, 32, 64}

Init == EmptyNand /\ InitSessions

Next ==
  \/ \E ok \in BOOLEAN, t \in TicketInputs, u \in BOOLEAN, w \in BOOLEAN : AddTicket(ok, t, u, w)
  \/ \E ok \in BOOLEAN, t \in TmdInputs : AddTMD(ok, t)
  \/ \E ok \in BOOLEAN, t \in TmdInputs : AddTitleStart(ok, t)
  \/ \E ok \in BOOLEAN, t \in TitleInputs, c \in ContentIdInputs : AddContentStart(ok, t, c)
  \/ \E ok \in BOOLEAN, d \in DataInputs :
       /\ Len(m_addtitle_content_buffer) + Len(d) <= MaxBufferBlocks * AES_BLOCK
       /\ AddContentData(ok, 0, d)
  \/ \E ok \in BOOLEAN, o \in OobOutcomes, w \in WriteOutcomes : AddContentFinish(ok, 0, o, w)
  \/ \E ok \in BOOLEAN, f \in 0..3, w \in BOOLEAN, m \in BOOLEAN : AddTitleFinish(ok, f, w, m)
  \/ \E ok \in BOOLEAN : AddTitleCancel(ok)
  \/ \E ok \in BOOLEAN, t \in TitleInputs, d \in BOOLEAN : DeleteTitle(ok, t, d)
  \/ \E ok \in BOOLEAN, t \in TitleInputs : DeleteTicket(ok, t)
  \/ \E ok \in BOOLEAN, t \in TitleInputs : DeleteTitleContent(ok, t)
  \/ \E ok \in BOOLEAN, t \in TitleInputs, z \in BOOLEAN : ExportTitleInit(ok, t, z)
  \/ \E ok \in BOOLEAN, t \in TitleInputs, c \in ContentIdInputs : ExportContentBegin(ok, t, c)
  \/ \E ok \in BOOLEAN, h \in 0..MaxHandles, n \in RequestLengths : ExportContentData(ok, h, n)
  \/ \E ok \in BOOLEAN, h \in 0..MaxHandles : ExportContentEnd(ok, h)
  \/ ExportTitleDone

Spec == Init /\ [][Next]_vars

\* ------------------------------------------------------------------ the license store alone

NextTicket ==
  \/ \E ok \in BOOLEAN, t \in TicketInputs, u \in BOOLEAN, w \in BOOLEAN : AddTicket(ok, t, u, w)
  \/ \E ok \in BOOLEAN, t \in TitleInputs : DeleteTicket(ok, t)

SpecTicket == Init /\ [][NextTicket]_vars

\* A ticket bound to another console.
ForeignTicket(ticket) ==
  ticket.valid /\ ticket.device_id # 0 /\ ticket.device_id # LocalDeviceId

\* C7: AddTicket with a valid ticket whose device id is non-zero and differs
\* from the console's returns ES_DEVICE_ID_MISMATCH and leaves the ticket files
\* as they were (nothing stored, a prior ticket of the title kept).
C7_ForeignTicketRefused ==
  [][(/\ last'.op = "AddTicket"
      /\ last'.vectors_ok
      /\ ForeignTicket(last'.arg[1]))
     => (last'.ret = "ES_DEVICE_ID_MISMATCH" /\ tickets' = tickets)]_vars

\* C7 witness: a foreign ticket was refused while the title had a ticket.
C7_Witness ==
  /\ last.op = "AddTicket"
  /\ last.vectors_ok
  /\ ForeignTicket(last.arg[1])
  /\ last.ret = "ES_DEVICE_ID_MISMATCH"
  /\ HasTicket(last.arg[1].title_id)
  /\ tickets[last.arg[1].title_id].device_id = LocalDeviceId

\* ------------------------------------------------------------------ deletion on a populated NAND

Plains == {PlainA0, PlainA2, PlainShared, PlainB1, PlainSys}

PlainOf(content_info) == CHOOSE p \in Plains : Sha1(p) = content_info.sha1

\* The shared contents of a set of TMDs, in some order without repetition.
SharedSha1s(tmds) ==
  {t.contents[k].sha1 : <<t, k>> \in {q \in tmds \X (1..3) :
                                       q[2] <= Len(q[1].contents) /\ q[1].contents[q[2]].shared}}

RECURSIVE SeqOfSet(_)
SeqOfSet(set) ==
  IF set = {} THEN <<>>
  ELSE LET e == CHOOSE e \in set : TRUE IN <<e>> \o SeqOfSet(set \ {e})

\* A NAND on which the titles of tmds are installed with all their contents
\* (InstalledFiles) and a ticket each (InstalledNand), the state AddTicket ..
\* AddTitleFinish leave for them.
InstalledFiles(tmds) ==
  LET private == {q \in tmds \X (1..3) :
                    q[2] <= Len(q[1].contents) /\ ~q[1].contents[q[2]].shared}
      titles == {t.title_id : t \in tmds}
      shared == SeqOfSet(SharedSha1s(tmds))
  IN
  /\ uid_sys = titles
  /\ import_content = NoFiles
  /\ import_tmd = NoFiles
  /\ title_dirs = titles
  /\ title_content =
       [path \in {<<q[1].title_id, q[1].contents[q[2]].id>> : q \in private} |->
          PlainOf(FindContentById(CHOOSE t \in tmds : t.title_id = path[1], path[2]))]
  /\ title_tmd = [id \in titles |-> CHOOSE t \in tmds : t.title_id = id]
  /\ shared_map = shared
  /\ shared_files = [k \in 1..Len(shared) |-> CHOOSE p \in Plains : Sha1(p) = shared[k]]

InstalledNand(tmds) ==
  /\ tickets = [id \in {t.title_id : t \in tmds} |-> Ticket(id, 0, KeyOf(id))]
  /\ InstalledFiles(tmds)

DeleteTitleInputs == {TitleA, TitleB, TitleSys, TitleSys2, TitleId(SYSTEM_TITLE_HIGH, 2)}

InitDelete ==
  /\ \E tmds \in SUBSET {TmdA, TmdSys, TmdSys2} : InstalledNand(tmds)
  /\ InitSessions

NextDelete ==
  \/ \E ok \in BOOLEAN, t \in DeleteTitleInputs, d \in BOOLEAN : DeleteTitle(ok, t, d)
  \/ \E ok \in BOOLEAN, t \in DeleteTitleInputs : DeleteTicket(ok, t)
  \/ \E ok \in BOOLEAN, t \in DeleteTitleInputs : DeleteTitleContent(ok, t)

SpecDelete == InitDelete /\ [][NextDelete]_vars

\* A system title id IOS refuses to delete: high half 1, low half at most 0x101.
ProtectedTitle(title_id) == title_id.hi = 1 /\ title_id.lo <= 257

\* A well-formed DeleteTitle request was just served.
DeleteTitleServed == last'.op = "DeleteTitle" /\ last'.vectors_ok

\* A title DeleteTitle can act on: its directory exists and the logical removal
\* of the title succeeds.
Removable(title_id) == title_id \in title_dirs /\ CanRemoveTitle(title_id)

\* The title directory and everything under it are gone.
TitleGone(title_id) ==
  /\ title_id \notin title_dirs'
  /\ title_id \notin DOMAIN title_tmd'
  /\ \A q \in DOMAIN title_content' : q[1] # title_id

\* C8 as stated: DeleteTitle fails with the parameter error and deletes nothing
\* for a protected system title id, and for every other title id whose directory
\* exists and whose logical removal succeeds it returns success with the title
\* directory removed.
C8_DeleteTitleAsStated ==
  [][DeleteTitleServed =>
       /\ ProtectedTitle(last'.arg[1]) =>
            (last'.ret = "ES_PARAMETER_SIZE_OR_ALIGNMENT" /\ nand' = nand)
       /\ (~ProtectedTitle(last'.arg[1]) /\ Removable(last'.arg[1])) =>
            (last'.ret = "IPC_SUCCESS" /\ TitleGone(last'.arg[1]))]_vars

\* C8 amended: as stated, except that for a removable title the recursive
\* deletion of the directory may fail; then the reply is FS_EACCESS and the
\* directory is still there.
C8_DeleteTitle ==
  [][DeleteTitleServed =>
       /\ ProtectedTitle(last'.arg[1]) =>
            (last'.ret = "ES_PARAMETER_SIZE_OR_ALIGNMENT" /\ nand' = nand)
       /\ (~ProtectedTitle(last'.arg[1]) /\ Removable(last'.arg[1])) =>
            \/ last'.ret = "IPC_SUCCESS" /\ TitleGone(last'.arg[1])
            \/ last'.ret = "FS_EACCESS" /\ last'.arg[1] \in title_dirs']_vars

\* C8 witness: title 00000001-00000101 is installed and its deletion was just
\* refused, after title 00000001-00000102 had been deleted.
C8_Witness ==
  /\ last.op = "DeleteTitle"
  /\ last.vectors_ok
  /\ last.arg[1] = TitleSys
  /\ last.ret = "ES_PARAMETER_SIZE_OR_ALIGNMENT"
  /\ TitleSys \in title_dirs
  /\ <<TitleSys, 0>> \in DOMAIN title_content
  /\ TitleSys2 \in DOMAIN tickets
  /\ TitleSys2 \notin title_dirs

\* ------------------------------------------------------------------ the import session, one title

\* The payload of content 0 of title A in two chunks, and a chunk of no content.
PayloadA0 == Payload(TitleA, 0, PlainA0)

ImportDataInputs ==
  {SubSeq(PayloadA0, 1, AES_BLOCK), SubSeq(PayloadA0, AES_BLOCK + 1, 2 * AES_BLOCK),
   [i \in 1..AES_BLOCK |-> 255]}

NextImport ==
  \/ AddTicket(TRUE, Ticket(TitleA, 0, KeyOf(TitleA)), TRUE, TRUE)
  \/ \E t \in {TmdA, MalformedTMD} : AddTMD(TRUE, t)
  \/ \E c \in {0, 3, NO_CONTENT} : AddContentStart(TRUE, TitleA, c)
  \/ \E d \in ImportDataInputs :
       /\ Len(m_addtitle_content_buffer) + Len(d) <= MaxBufferBlocks * AES_BLOCK
       /\ AddContentData(TRUE, 0, d)
  \/ \E o \in OobOutcomes, w \in WriteOutcomes : AddContentFinish(TRUE, 0, o, w)
  \/ AddTitleFinish(TRUE, 0, TRUE, TRUE)
  \/ AddTitleCancel(TRUE)

SpecImport == Init /\ [][NextImport]_vars

\* AddContentFinish is called with a content open, a valid staged TMD that has
\* the open content id and a ticket installed for the staged title.
FinishReady ==
  /\ m_addtitle_content_id # NO_CONTENT
  /\ m_addtitle_tmd.valid
  /\ HasContentId(m_addtitle_tmd, m_addtitle_content_id)
  /\ HasTicket(m_addtitle_tmd.title_id)

\* The decrypted buffer has the record's size bytes, and they do not hash to
\* the record's digest.
LeadingBytesMismatch ==
  LET info == FindContentById(m_addtitle_tmd, m_addtitle_content_id)
      data == DecryptedData(FindSignedTicket(m_addtitle_tmd.title_id), info,
                            m_addtitle_content_buffer)
  IN  /\ info.size <= Len(data)
      /\ Sha1(SubSeq(data, 1, info.size)) # info.sha1

\* C1: AddContentFinish with a content open, a valid staged TMD holding the
\* open content id and a ticket installed, on a buffer whose leading size bytes
\* do not hash to the declared digest, returns ES_HASH_DOESNT_MATCH, writes no
\* temporary import file and puts nothing in the content store.
C1_HashMismatchRejected ==
  [][(/\ last'.op = "AddContentFinish"
      /\ last'.vectors_ok
      /\ FinishReady
      /\ LeadingBytesMismatch)
     => (/\ last'.ret = "ES_HASH_DOESNT_MATCH"
         /\ import_content' = import_content
         /\ title_content' = title_content
         /\ shared_files' = shared_files)]_vars

\* C1 witness: a full-size buffer was just rejected for its digest; the content
\* is still open and has no temporary file.
C1_Witness ==
  /\ last.op = "AddContentFinish"
  /\ last.ret = "ES_HASH_DOESNT_MATCH"
  /\ FinishReady
  /\ LeadingBytesMismatch
  /\ GetImportContentPath(m_addtitle_tmd, m_addtitle_content_id) \notin DOMAIN import_content

\* C4: after a successful AddTitleCancel the import session is idle: no TMD is
\* staged and no content is open.
C4_CancelReturnsToIdle ==
  (last.op = "AddTitleCancel" /\ last.ret = "IPC_SUCCESS")
    => (~m_addtitle_tmd.valid /\ m_addtitle_content_id = NO_CONTENT)

\* ------------------------------------------------------------------ finishing imports, two titles

\* Both titles have their tickets; any of them is installed; nothing is staged.
InitFinish ==
  /\ tickets = [id \in {TitleA, TitleB} |-> Ticket(id, 0, KeyOf(id))]
  /\ \E tmds \in SUBSET {TmdA, TmdB} : InstalledFiles(tmds)
  /\ InitSessions

\* The installer sends each content's payload in one AddContentData call.
FinishDataInputs == {Payload(TitleA, 0, PlainA0), Payload(TitleA, 1, PlainShared)}

\* Title A is imported, or imported again; either title is deleted.
NextFinish ==
  \/ AddTMD(TRUE, TmdA)
  \/ \E c \in {0, 1} : AddContentStart(TRUE, TitleA, c)
  \/ \E d \in FinishDataInputs :
       /\ m_addtitle_content_buffer = <<>>
       /\ AddContentData(TRUE, 0, d)
  \/ AddContentFinish(TRUE, 0, [crash |-> FALSE, garbage |-> 0], "ok")
  \/ \E f \in 0..2, w \in BOOLEAN, m \in BOOLEAN : AddTitleFinish(TRUE, f, w, m)
  \/ \E t \in {TitleA, TitleB} : DeleteTitle(TRUE, t, TRUE)

SpecFinish == InitFinish /\ [][NextFinish]_vars

\* The staged private contents whose temporary file exists and whose final
\* path holds no file: what a call of AddTitleFinish can place there.
PrivateToPlace ==
  {k \in 1..Len(m_addtitle_tmd.contents) :
     /\ ~m_addtitle_tmd.contents[k].shared
     /\ GetImportContentPath(m_addtitle_tmd, m_addtitle_tmd.contents[k].id)
          \in DOMAIN import_content
     /\ GetImportContentPath(m_addtitle_tmd, m_addtitle_tmd.contents[k].id)
          \notin DOMAIN title_content}

FinishFailed ==
  /\ last'.op = "AddTitleFinish"
  /\ last'.vectors_ok
  /\ m_addtitle_tmd.valid
  /\ last'.ret # "IPC_SUCCESS"

\* C2: when AddTitleFinish fails, no private content it placed remains in the
\* title's content directory, and the shared pool keeps every file it had or
\* received.
C2_FailedFinishRollsBack ==
  [][FinishFailed =>
       /\ \A k \in PrivateToPlace :
            GetImportContentPath(m_addtitle_tmd, m_addtitle_tmd.contents[k].id)
              \notin DOMAIN title_content'
       /\ DOMAIN shared_files \subseteq DOMAIN shared_files']_vars

\* C3: a failed AddTitleFinish leaves every installed title as it was: the
\* same TMD and the same content files.
C3_FailedFinishKeepsInstalled ==
  [][FinishFailed =>
       \A id \in DOMAIN title_tmd :
         /\ id \in DOMAIN title_tmd'
         /\ title_tmd'[id] = title_tmd[id]
         /\ \A q \in DOMAIN title_content :
              q[1] = id => (q \in DOMAIN title_content' /\ title_content'[q] = title_content[q])]_vars

\* The shared pool's map has one entry per digest, and every file of the pool
\* is the file of an entry.
OneFilePerDigest ==
  /\ \A j, k \in 1..Len(shared_map) : shared_map[j] = shared_map[k] => j = k
  /\ DOMAIN shared_files \subseteq 1..Len(shared_map)

InitExport == InstalledNand({TmdA}) /\ InitSessions

ExportLengths == {16, 32}

\* Title A is exported, and may be deleted meanwhile.
NextExport ==
  \/ ExportTitleInit(TRUE, TitleA, TRUE)
  \/ \E c \in {0, 1} : ExportContentBegin(TRUE, TitleA, c)
  \/ \E h \in 0..MaxHandles, n \in ExportLengths : ExportContentData(TRUE, h, n)
  \/ \E ok \in BOOLEAN, h \in 0..MaxHandles : ExportContentEnd(ok, h)
  \/ ExportTitleDone
  \/ DeleteTitle(TRUE, TitleA, TRUE)

SpecExport == InitExport /\ [][NextExport]_vars

\* ExportContentEnd is called, well-formed, for a handle of the valid session.
EndOfOpenHandle(h) ==
  /\ last'.op = "ExportContentEnd"
  /\ last'.vectors_ok
  /\ last'.arg = <<h>>
  /\ m_export_title_context.valid
  /\ h \in DOMAIN m_export_title_context.contents

\* C9: ExportContentEnd on an open handle fails with the parameter error and
\* leaves the handle map as it is while the position is below the declared
\* size; at the declared size it succeeds and removes the handle and only it,
\* so that the handle is free for ExportContentBegin.
C9_EndOnlyWhenComplete ==
  [][\A h \in 0..MaxHandles : EndOfOpenHandle(h) =>
       LET contents == m_export_title_context.contents IN
       IF contents[h].m_position < contents[h].m_content.size
         THEN /\ last'.ret = "ES_PARAMETER_SIZE_OR_ALIGNMENT"
              /\ m_export_title_context' = m_export_title_context
         ELSE /\ last'.ret = "IPC_SUCCESS"
              /\ m_export_title_context'.contents = Drop(contents, {h})]_vars

\* The smallest non-negative integer that is not a key of the handle map.
SmallestUnused(contents) ==
  CHOOSE n \in 0..Cardinality(DOMAIN contents) :
    n \notin DOMAIN contents /\ \A m \in 0..(n - 1) : m \in DOMAIN contents

\* C10: a successful ExportContentBegin returns the smallest integer that is not
\* a key of the handle map, adds that one entry at position 0 and leaves every
\* other entry as it was.
C10_SmallestUnusedHandle ==
  [][(last'.op = "ExportContentBegin" /\ last'.ret = "IPC_SUCCESS") =>
       LET contents == m_export_title_context.contents
           cid == last'.value
       IN  /\ cid = SmallestUnused(contents)
           /\ DOMAIN m_export_title_context'.contents = DOMAIN contents \cup {cid}
           /\ m_export_title_context'.contents[cid].m_position = 0
           /\ \A h \in DOMAIN contents :
                m_export_title_context'.contents[h] = contents[h]]_vars

\* C10 witness: handle 0 was closed while handle 1 was being read, and
\* ExportContentBegin has just given handle 0 out again.
C10_Witness ==
  /\ last.op = "ExportContentBegin"
  /\ last.ret = "IPC_SUCCESS"
  /\ last.value = 0
  /\ DOMAIN m_export_title_context.contents = {0, 1}
  /\ m_export_title_context.contents[0].m_position = 0
  /\ m_export_title_context.contents[1].m_position > 0

\* ------------------------------------------------------------------ import, then export

\* The installer works while no export is under way, and the exporter while
\* the import session is idle with nothing left in the import directory.
NoExportUnderWay ==
  /\ ~m_export_title_context.valid
  /\ DOMAIN m_export_title_context.contents = {}

NoImportUnderWay ==
  /\ ~m_addtitle_tmd.valid
  /\ m_addtitle_content_id = NO_CONTENT
  /\ DOMAIN import_content = {}

RoundTripDataInputs == {Payload(TitleA, 0, PlainA0), Payload(TitleA, 258, PlainA2)}

RoundTripLengths == {16, 32, 64}

\* Title A is installed through the import requests and exported, one stream
\* at a time, with requests of 16, 32 or 64 bytes.
NextRoundTrip ==
  \/ NoExportUnderWay /\ AddTicket(TRUE, Ticket(TitleA, 0, KeyOf(TitleA)), TRUE, TRUE)
  \/ NoExportUnderWay /\ AddTMD(TRUE, TmdA)
  \/ \E c \in {0, 2} : NoExportUnderWay /\ AddContentStart(TRUE, TitleA, c)
  \/ \E d \in RoundTripDataInputs :
       /\ NoExportUnderWay
       /\ m_addtitle_content_buffer = <<>>
       /\ AddContentData(TRUE, 0, d)
  \/ NoExportUnderWay /\ AddContentFinish(TRUE, 0, [crash |-> FALSE, garbage |-> 0], "ok")
  \/ NoExportUnderWay /\ AddTitleFinish(TRUE, 0, TRUE, TRUE)
  \/ NoImportUnderWay /\ ExportTitleInit(TRUE, TitleA, TRUE)
  \/ \E c \in {0, 2} :
       /\ DOMAIN m_export_title_context.contents = {}
       /\ ExportContentBegin(TRUE, TitleA, c)
  \/ \E n \in RoundTripLengths : ExportContentData(TRUE, 0, n)
  \/ ExportContentEnd(TRUE, 0)
  \/ ExportTitleDone

SpecRoundTrip == Init /\ [][NextRoundTrip]_vars

\* The stream of handle h has been read up to the declared size.
ExportComplete(h) ==
  /\ m_export_title_context.valid
  /\ h \in DOMAIN m_export_title_context.contents
  /\ m_export_title_context.contents[h].m_position =
       m_export_title_context.contents[h].m_content.size

\* What the caller received for handle h decrypts, under the title key and
\* the IV of the content's index, to the installed content.
DecryptsToInstalled(h) ==
  LET entry == m_export_title_context.contents[h]
      plain == AesCbcDecrypt(KeyOf(entry.m_title_id), ContentIV(entry.m_content.index),
                             export_stream[h].out)
  IN  /\ plain.ret = 0
      /\ Len(plain.out) >= entry.m_content.size
      /\ Take(plain.out, entry.m_content.size) = ContentFile(entry.m_title_id, entry.m_content)

\* C5: once a content of an imported title has been exported up to its
\* declared size, with whatever non-zero request lengths, the ciphertext the
\* caller received decrypts to the installed content.
C5_RoundTrip ==
  \A h \in DOMAIN m_export_title_context.contents :
    ExportComplete(h) => DecryptsToInstalled(h)

\* The round trip does hold for the exports whose requests are all multiples
\* of the 32 byte transfer alignment.
RoundTripAligned ==
  \A h \in DOMAIN m_export_title_context.contents :
    (/\ ExportComplete(h)
     /\ \A k \in 1..Len(export_stream[h].requests) :
          export_stream[h].requests[k] % EXPORT_ALIGN = 0)
      => DecryptsToInstalled(h)

\* Every handle's position is within the declared size of its content.
PositionsBounded ==
  \A h \in DOMAIN m_export_title_context.contents :
    m_export_title_context.contents[h].m_position
      <= m_export_title_context.contents[h].m_content.size

\* C11: every entry of the handle map has a position no greater than its
\* content's declared size, and no step lowers the position of a handle that
\* stays in the map.
C11_PositionBoundedMonotonic ==
  /\ []PositionsBounded
  /\ [][\A h \in DOMAIN m_export_title_context.contents :
          h \in DOMAIN m_export_title_context'.contents =>
            m_export_title_context'.contents[h].m_position
              >= m_export_title_context.contents[h].m_position]_vars

\* C11 witness: a request for more than the 4 bytes that remained of the
\* 20-byte content was served and left the position at the declared size.
C11_Witness ==
  /\ last.op = "ExportContentData"
  /\ last.ret = "IPC_SUCCESS"
  /\ last.arg[1] \in DOMAIN m_export_title_context.contents
  /\ LET entry == m_export_title_context.contents[last.arg[1]] IN
       /\ entry.m_content.size = 20
       /\ entry.m_position = 20
       /\ export_stream[last.arg[1]].requests = <<16, 16>>

\* ------------------------------------------------------------------ export sessions, two titles

\* Titles A and B are installed with their tickets; no session is open.
InitSessionsOfTwo == InstalledNand({TmdA, TmdB}) /\ InitSessions

\* Either title is exported; sessions are closed and opened again.
NextSessions ==
  \/ \E ok \in BOOLEAN, t \in {TitleA, TitleB}, size_ok \in BOOLEAN :
       ExportTitleInit(ok, t, size_ok)
  \/ \E t \in {TitleA, TitleB}, c \in {0, 1} : ExportContentBegin(TRUE, t, c)
  \/ \E h \in 0..MaxHandles : ExportContentData(TRUE, h, EXPORT_ALIGN)
  \/ \E h \in 0..MaxHandles : ExportContentEnd(TRUE, h)
  \/ ExportTitleDone

SpecSessions == InitSessionsOfTwo /\ [][NextSessions]_vars

\* C12: ExportTitleInit during a valid export session fails and leaves the
\* session (its TMD, title key, validity flag and handle map) as it is; a
\* session is initialised only from a state in which none is valid, and only
\* ExportTitleDone ends the validity of one.
C12_OneExportAtATime ==
  [][/\ (last'.op = "ExportTitleInit" /\ m_export_title_context.valid)
          => (/\ last'.ret = "ES_PARAMETER_SIZE_OR_ALIGNMENT"
              /\ m_export_title_context' = m_export_title_context)
     /\ (last'.op = "ExportTitleInit" /\ last'.ret = "IPC_SUCCESS")
          => ~m_export_title_context.valid
     /\ (m_export_title_context.valid /\ ~m_export_title_context'.valid)
          => last'.op = "ExportTitleDone"]_vars

\* C12 witness: title B's ExportTitleInit was refused during the session of
\* title A, which still has its open handle.
C12_Witness ==
  /\ last.op = "ExportTitleInit"
  /\ last.vectors_ok
  /\ last.arg = <<TitleB>>
  /\ last.ret = "ES_PARAMETER_SIZE_OR_ALIGNMENT"
  /\ m_export_title_context.valid
  /\ m_export_title_context.tmd = TmdA
  /\ m_export_title_context.title_key = KeyOf(TitleA)
  /\ DOMAIN m_export_title_context.contents = {0}

\* ------------------------------------------------------------------ staging, one ticket

\* A second TMD of title A: content 0 is another private content.
TmdA2 == TMD(TitleA, <<ContentFor(0, 0, PlainB1, FALSE)>>)

\* Title A has its ticket, title B has none; nothing is installed or staged.
InitStage ==
  /\ tickets = [id \in {TitleA} |-> Ticket(id, 0, KeyOf(id))]
  /\ InstalledFiles({})
  /\ InitSessions

StageTmdInputs == {TmdA, TmdA2, TmdB, MalformedTMD}

\* Content 0 as TmdA declares it and as TmdA2 declares it.
StageDataInputs == {Payload(TitleA, 0, PlainA0), Payload(TitleA, 0, PlainB1)}

\* TMDs are staged over one another, by AddTMD or AddTitleStart, while content
\* 0 or the undeclared content 3 is imported.
NextStage ==
  \/ \E t \in StageTmdInputs : AddTMD(TRUE, t)
  \/ \E t \in StageTmdInputs : AddTitleStart(TRUE, t)
  \/ \E c \in {0, 3} : AddContentStart(TRUE, TitleA, c)
  \/ \E d \in StageDataInputs :
       /\ Len(m_addtitle_content_buffer) + Len(d) <= MaxBufferBlocks * AES_BLOCK
       /\ AddContentData(TRUE, 0, d)
  \/ AddContentFinish(TRUE, 0, [crash |-> FALSE, garbage |-> 0], "ok")
  \/ AddTitleFinish(TRUE, 0, TRUE, TRUE)
  \/ AddTitleCancel(TRUE)

SpecStage == InitStage /\ [][NextStage]_vars

\* A TMD was staged successfully by the step.
Staged == last'.op \in {"AddTMD", "AddTitleStart"} /\ last'.ret = "IPC_SUCCESS"

\* C13: a successful AddTMD or AddTitleStart over a staged TMD leaves exactly
\* the new TMD staged; the stage then changes only by another staging, a
\* finish or a cancel; a successful AddContentFinish has written the bytes
\* that hash to the digest the staged TMD declares, at the path of the staged
\* title; a successful AddTitleFinish installs the staged TMD.
C13_SecondTmdReplacesStage ==
  [][/\ Staged => m_addtitle_tmd' = last'.arg[1]
     /\ m_addtitle_tmd' # m_addtitle_tmd
          => last'.op \in {"AddTMD", "AddTitleStart", "AddTitleFinish", "AddTitleCancel"}
     /\ (last'.op = "AddContentFinish" /\ last'.ret = "IPC_SUCCESS")
          => LET tmp_path == GetImportContentPath(m_addtitle_tmd, m_addtitle_content_id) IN
             /\ tmp_path \in DOMAIN import_content'
             /\ Sha1(import_content'[tmp_path])
                  = FindContentById(m_addtitle_tmd, m_addtitle_content_id).sha1
     /\ (last'.op = "AddTitleFinish" /\ last'.ret = "IPC_SUCCESS")
          => title_tmd'[m_addtitle_tmd.title_id] = m_addtitle_tmd]_vars

\* C13 witness: content 0 was finished under TmdA (its temporary file holds the
\* bytes only TmdA declares) and TmdA2 has just been staged in the same import;
\* the stage is TmdA2 alone.
C13_Witness ==
  /\ last.op \in {"AddTMD", "AddTitleStart"}
  /\ last.ret = "IPC_SUCCESS"
  /\ last.arg = <<TmdA2>>
  /\ m_addtitle_tmd = TmdA2
  /\ <<TitleA, 0>> \in DOMAIN import_content
  /\ import_content[<<TitleA, 0>>] = PlainA0

\* C14: ExportContentData and ExportContentEnd always return a result code,
\* whatever was deleted or imported since ExportContentBegin: neither uses a
\* content record that the content store no longer has, and the process lives.
C14_NoFatalError ==
  /\ ~crashed
  /\ last.op \in {"ExportContentData", "ExportContentEnd"} => last.ret # "CRASH"

\* C15: AddContentStart while a content is open fails and leaves the open
\* content id, the accumulation buffer and the staged TMD as they are.
C15_StartRefusedWhileOpen ==
  [][(last'.op = "AddContentStart" /\ last'.vectors_ok /\ m_addtitle_content_id # NO_CONTENT)
       => (/\ last'.ret = "ES_WRITE_FAILURE"
           /\ m_addtitle_content_id' = m_addtitle_content_id
           /\ m_addtitle_content_buffer' = m_addtitle_content_buffer
           /\ m_addtitle_tmd' = m_addtitle_tmd)]_vars

\* C15 witness: content 3 was refused while content 0 is open with its bytes
\* in the buffer.
C15_Witness ==
  /\ last.op = "AddContentStart"
  /\ last.arg = <<TitleA, 3>>
  /\ last.ret = "ES_WRITE_FAILURE"
  /\ m_addtitle_content_id = 0
  /\ m_addtitle_content_buffer = Payload(TitleA, 0, PlainA0)
  /\ m_addtitle_tmd = TmdA

\* C16: AddContentStart with no valid TMD staged fails and opens no content:
\* the marker is still the sentinel and the accumulation buffer is as before.
C16_StartRequiresStaged ==
  [][(/\ last'.op = "AddContentStart"
      /\ last'.vectors_ok
      /\ ~m_addtitle_tmd.valid
      /\ m_addtitle_content_id = NO_CONTENT)
       => (/\ last'.ret # "IPC_SUCCESS"
           /\ m_addtitle_content_id' = NO_CONTENT
           /\ m_addtitle_content_buffer' = m_addtitle_content_buffer)]_vars

\* C17: AddTMD or AddTitleStart with a malformed TMD fails with ES_INVALID_TMD
\* and leaves the TMD staged before as it is.
C17_MalformedTmdKeepsStage ==
  [][(/\ last'.op \in {"AddTMD", "AddTitleStart"}
      /\ last'.vectors_ok
      /\ ~last'.arg[1].valid
      /\ m_addtitle_tmd.valid)
       => (/\ last'.ret = "ES_INVALID_TMD"
           /\ m_addtitle_tmd' = m_addtitle_tmd)]_vars

\* C18: AddContentData with no content open fails and leaves the accumulation
\* buffer as it is.
C18_DataRequiresOpenContent ==
  [][(/\ last'.op = "AddContentData"
      /\ last'.vectors_ok
      /\ m_addtitle_content_id = NO_CONTENT)
       => (/\ last'.ret # "IPC_SUCCESS"
           /\ m_addtitle_content_buffer' = m_addtitle_content_buffer)]_vars

\* AddContentFinish is called with a content open that the valid staged TMD
\* does not declare.
FinishOfUndeclared ==
  /\ last'.op = "AddContentFinish"
  /\ last'.vectors_ok
  /\ m_addtitle_content_id # NO_CONTENT
  /\ m_addtitle_tmd.valid
  /\ ~HasContentId(m_addtitle_tmd, m_addtitle_content_id)

\* C19 as stated: AddContentFinish of a content the staged TMD does not declare
\* fails with ES_INVALID_TMD, also when the staged title has no ticket, and
\* writes no temporary file.
C19_UndeclaredContentAsStated ==
  [][FinishOfUndeclared =>
       (last'.ret = "ES_INVALID_TMD" /\ import_content' = import_content)]_vars

\* C19 amended: it fails with ES_INVALID_TMD when the staged title has a
\* ticket and with ES_NO_TICKET_INSTALLED when it has none, and writes no
\* temporary file in either case.
C19_UndeclaredContentRefused ==
  [][FinishOfUndeclared =>
       (/\ last'.ret = IF HasTicket(m_addtitle_tmd.title_id)
                         THEN "ES_INVALID_TMD" ELSE "ES_NO_TICKET_INSTALLED"
        /\ import_content' = import_content
        /\ m_addtitle_content_id' = m_addtitle_content_id)]_vars

\* C19 witness: content 3, which TmdA does not declare, was refused with
\* ES_INVALID_TMD and has no temporary file.
C19_Witness ==
  /\ last.op = "AddContentFinish"
  /\ last.ret = "ES_INVALID_TMD"
  /\ m_addtitle_content_id = 3
  /\ m_addtitle_tmd = TmdA
  /\ HasTicket(TitleA)
  /\ <<TitleA, 3>> \notin DOMAIN import_content

\* C20: AddContentFinish on an accumulation buffer shorter than the declared
\* size of the content fails with a result code and writes no temporary file;
\* nothing is read past the end of the buffer.
C20_ShortBufferRejected ==
  [][(/\ last'.op = "AddContentFinish"
      /\ last'.vectors_ok
      /\ FinishReady
      /\ Len(m_addtitle_content_buffer)
           < FindContentById(m_addtitle_tmd, m_addtitle_content_id).size)
       => (/\ last'.ret \notin {"IPC_SUCCESS", "CRASH"}
           /\ ~crashed'
           /\ import_content' = import_content)]_vars

\* C21: AddTitleFinish while a content is open fails, places nothing and
\* leaves the staged TMD staged.
C21_FinishRequiresNoOpenContent ==
  [][(/\ last'.op = "AddTitleFinish"
      /\ last'.vectors_ok
      /\ m_addtitle_tmd.valid
      /\ m_addtitle_content_id # NO_CONTENT)
       => (/\ last'.ret # "IPC_SUCCESS"
           /\ title_content' = title_content
           /\ shared_files' = shared_files
           /\ title_tmd' = title_tmd
           /\ m_addtitle_tmd' = m_addtitle_tmd)]_vars

\* The staged contents that have a temporary file.
Transferred ==
  {k \in 1..Len(m_addtitle_tmd.contents) :
     GetImportContentPath(m_addtitle_tmd, m_addtitle_tmd.contents[k].id)
       \in DOMAIN import_content}

\* C22: with a valid staged TMD, and no rename or write made to fail,
\* AddTitleFinish succeeds whichever contents have a temporary file; it places
\* those (the private ones in the title's content directory, the shared ones in
\* the shared pool) and no others, installs the TMD and clears the stage.
C22_FinishToleratesUntransferred ==
  [][(last'.op = "AddTitleFinish" /\ last'.vectors_ok /\ m_addtitle_tmd.valid)
       => (/\ last'.ret = "IPC_SUCCESS"
           /\ \A k \in 1..Len(m_addtitle_tmd.contents) :
                LET info == m_addtitle_tmd.contents[k]
                    path == GetImportContentPath(m_addtitle_tmd, info.id)
                IN  IF k \in Transferred
                      THEN IF info.shared
                             THEN \E j \in DOMAIN shared_files' :
                                    /\ shared_map'[j] = info.sha1
                                    /\ shared_files'[j] = import_content[path]
                             ELSE /\ path \in DOMAIN title_content'
                                  /\ title_content'[path] = import_content[path]
                      ELSE info.shared \/
                           (path \in DOMAIN title_content' => path \in DOMAIN title_content)
           /\ m_addtitle_tmd.title_id \in DOMAIN title_tmd'
           /\ title_tmd'[m_addtitle_tmd.title_id] = m_addtitle_tmd
           /\ ~m_addtitle_tmd'.valid)]_vars

\* ------------------------------------------------------------------ export of a content of 4 GiB and more

\* Title A with one private content whose declared size is 2^32 + 20 bytes.
\* Of its file the first 20 bytes are held; no read goes further.
TmdHuge == TMD(TitleA, <<Content64(0, 0, 1, Len(PlainA0), Sha1(PlainA0), FALSE)>>)

InitHuge == InstalledNand({TmdHuge}) /\ InitSessions

\* Model bound: the number of ExportContentData requests served per handle.
MaxRequests == 4

NextHuge ==
  \/ ExportTitleInit(TRUE, TitleA, TRUE)
  \/ ExportContentBegin(TRUE, TitleA, 0)
  \/ \E h \in 0..(MaxHandles - 1), n \in ExportLengths :
       /\ h \in DOMAIN export_stream => Len(export_stream[h].requests) < MaxRequests
       /\ ExportContentData(TRUE, h, n)
  \/ \E h \in 0..(MaxHandles - 1) : ExportContentEnd(TRUE, h)
  \/ ExportTitleDone

SpecHuge == InitHuge /\ [][NextHuge]_vars

\* The step is an ExportContentData that returned success.
ExportDataServed ==
  /\ last'.op = "ExportContentData"
  /\ last'.vectors_ok
  /\ last'.ret = "IPC_SUCCESS"

\* C23: a successful ExportContentData(handle, n) reads min(n, size - position)
\* plaintext bytes at the handle's position, advances the position by that
\* number, and copies out a ciphertext of that number rounded up to a multiple
\* of 32.
C23_ReadsMinAndPads ==
  [][ExportDataServed =>
       LET h == last'.arg[1]
           n == last'.arg[2]
           entry == m_export_title_context.contents[h]
           \* min(n, size - position); n is below 2^32
           length == IF entry.m_content.size_hi > 0 THEN n
                     ELSE Min(n, entry.m_content.size - entry.m_position)
           written == export_stream'[h].written
           plain == AesCbcDecrypt(m_export_title_context.title_key, entry.iv, written)
           file == ContentFile(entry.m_title_id, entry.m_content)
       IN  /\ m_export_title_context'.contents[h].m_position = entry.m_position + length
           /\ Len(written) % EXPORT_ALIGN = 0
           /\ Len(written) >= length
           /\ Len(written) < length + EXPORT_ALIGN
           /\ plain.ret = 0
           /\ Take(plain.out, length)
                = SubSeq(file, entry.m_position + 1, entry.m_position + length)
           /\ \A i \in (length + 1)..Len(written) : plain.out[i] = 0]_vars

\* ------------------------------------------------------------------ export requests that fail

\* Title A is exported with well-formed and malformed requests, requests of no
\* bytes, requests for handles that are not open, for another title and for a
\* content the title does not have, while its content files or the title may be
\* removed.
NextExportErrors ==
  \/ ExportTitleInit(TRUE, TitleA, TRUE)
  \/ \E t \in {TitleA, TitleB}, c \in {0, 1, 3} : ExportContentBegin(TRUE, t, c)
  \/ \E ok \in BOOLEAN, h \in 0..MaxHandles, n \in {0, 16, 32} : ExportContentData(ok, h, n)
  \/ \E h \in 0..MaxHandles : ExportContentEnd(TRUE, h)
  \/ ExportTitleDone
  \/ DeleteTitleContent(TRUE, TitleA)
  \/ DeleteTitle(TRUE, TitleA, TRUE)

SpecExportErrors == InitExport /\ [][NextExportErrors]_vars

\* C24: an ExportContentData that returns an error leaves the export session
\* as it was (the validity flag, the handle map, every position and running
\* IV) and copies nothing to the caller.
C24_FailedDataChangesNothing ==
  [][(last'.op = "ExportContentData" /\ last'.ret \notin {"IPC_SUCCESS", "CRASH"})
       => (/\ m_export_title_context' = m_export_title_context
           /\ export_stream' = export_stream)]_vars

\* C24 witness: a read from the store came short on a handle that had been
\* read up to position 16.
C24_Witness ==
  /\ last.op = "ExportContentData"
  /\ last.ret = "ES_READ_LESS_DATA_THAN_EXPECTED"
  /\ m_export_title_context.valid
  /\ last.arg[1] \in DOMAIN m_export_title_context.contents
  /\ m_export_title_context.contents[last.arg[1]].m_position = 16

\* C25: ExportTitleDone fails with the parameter error when the session is not
\* valid; when it is valid it clears the validity flag and leaves the handle
\* map, open handles included, as it was.
C25_DoneKeepsHandles ==
  [][last'.op = "ExportTitleDone" =>
       IF ~m_export_title_context.valid
         THEN /\ last'.ret = "ES_PARAMETER_SIZE_OR_ALIGNMENT"
              /\ m_export_title_context' = m_export_title_context
         ELSE /\ last'.ret = "IPC_SUCCESS"
              /\ ~m_export_title_context'.valid
              /\ m_export_title_context'.contents = m_export_title_context.contents]_vars

\* C25 witness: the session was closed with two handles open, one of them
\* read up to position 16.
C25_Witness ==
  /\ last.op = "ExportTitleDone"
  /\ last.ret = "IPC_SUCCESS"
  /\ ~m_export_title_context.valid
  /\ DOMAIN m_export_title_context.contents = {0, 1}
  /\ \E h \in {0, 1} : m_export_title_context.contents[h].m_position = 16

\* C26: ExportContentData and ExportContentEnd on one handle leave every
\* other open handle in the map with its content record, position and IV.
C26_HandlesIndependent ==
  [][last'.op \in {"ExportContentData", "ExportContentEnd"} =>
       \A g \in DOMAIN m_export_title_context.contents :
         (last'.arg = <<>> \/ g # last'.arg[1]) =>
           /\ g \in DOMAIN m_export_title_context'.contents
           /\ m_export_title_context'.contents[g] = m_export_title_context.contents[g]]_vars

\* C26 witness: a handle was read to its end and closed while another handle,
\* read up to position 16 of 20, stays open.
C26_Witness ==
  /\ last.op = "ExportContentEnd"
  /\ last.ret = "IPC_SUCCESS"
  /\ \E g \in DOMAIN m_export_title_context.contents :
       /\ g # last.arg[1]
       /\ m_export_title_context.contents[g].m_position = 16
       /\ m_export_title_context.contents[g].m_content.size = 20

\* The step is a well-formed ExportContentBegin(title_id, content_id).
BeginRequested(title_id, content_id) ==
  /\ last'.op = "ExportContentBegin"
  /\ last'.vectors_ok
  /\ last'.arg = <<title_id, content_id>>

\* The session is valid and bound to title_id, whose TMD is installed.
BoundToInstalled(title_id) ==
  /\ m_export_title_context.valid
  /\ m_export_title_context.tmd.title_id = title_id
  /\ title_id \in DOMAIN title_tmd

C28_PlacedFilesVerified ==
  [][last'.op = "AddTitleFinish" =>
       /\ \A path \in DOMAIN title_content' :
            (path \notin DOMAIN title_content \/ title_content'[path] # title_content[path])
              => (/\ path[1] = m_addtitle_tmd.title_id
                  /\ HasContentId(m_addtitle_tmd, path[2])
                  /\ Sha1(title_content'[path])
                       = FindContentById(m_addtitle_tmd, path[2]).sha1)
       /\ \A k \in DOMAIN shared_files' :
            k \notin DOMAIN shared_files => Sha1(shared_files'[k]) = shared_map'[k]]_vars

\* ------------------------------------------------------------------ a finish tried again

\* Title A is imported on a NAND that has its ticket and nothing else.  The TMD
\* is staged when none is, so a transaction lasts until AddTitleFinish clears
\* the stage; a rename of AddTitleFinish may fail, and the finish be tried again.
NextRetry ==
  \/ /\ ~m_addtitle_tmd.valid
     /\ AddTMD(TRUE, TmdA)
  \/ \E c \in {0, 1} : AddContentStart(TRUE, TitleA, c)
  \/ \E d \in FinishDataInputs :
       /\ m_addtitle_content_buffer = <<>>
       /\ AddContentData(TRUE, 0, d)
  \/ AddContentFinish(TRUE, 0, [crash |-> FALSE, garbage |-> 0], "ok")
  \/ \E f \in 0..2 : AddTitleFinish(TRUE, f, TRUE, TRUE)

SpecRetry == InitStage /\ [][NextRetry]_vars

\* Content k of TmdA is the content AddContentFinish accepted last: its payload
\* is in the accumulation buffer and the open-content marker has been reset.
FinishedLast(k) ==
  /\ m_addtitle_content_id = NO_CONTENT
  /\ m_addtitle_content_buffer
       = Payload(TitleA, TmdA.contents[k].index, PlainOf(TmdA.contents[k]))

\* Content k of TmdA is in its final place with the bytes that were imported.
Placed(k) ==
  IF TmdA.contents[k].shared
    THEN \E j \in DOMAIN shared_files :
           /\ j <= Len(shared_map)
           /\ shared_map[j] = TmdA.contents[k].sha1
           /\ shared_files[j] = PlainOf(TmdA.contents[k])
    ELSE /\ <<TitleA, TmdA.contents[k].id>> \in DOMAIN title_content
         /\ title_content[<<TitleA, TmdA.contents[k].id>>] = PlainOf(TmdA.contents[k])

\* C29: when AddTitleFinish has returned success, the content that
\* AddContentFinish accepted is in its final place, also when an earlier
\* AddTitleFinish of the transaction failed.
C29_FinishedContentsInstalled ==
  (last.op = "AddTitleFinish" /\ last.ret = "IPC_SUCCESS")
    => \A k \in 1..2 : FinishedLast(k) => Placed(k)

\* C30: while the export session is valid every entry of the handle map is a
\* content of the title the session is bound to, the title whose key
\* ExportContentData encrypts with.
C30_HandlesBelongToSession ==
  m_export_title_context.valid =>
    \A h \in DOMAIN m_export_title_context.contents :
      /\ m_export_title_context.contents[h].m_title_id
           = m_export_title_context.tmd.title_id
      /\ m_export_title_context.title_key
           = KeyOf(m_export_title_context.contents[h].m_title_id)

\* C31: a successful ExportContentData copies no more bytes to the caller's
\* region than the region holds, the length it was asked for.
C31_OutputFitsRegion ==
  [][ExportDataServed =>
       Len(export_stream'[last'.arg[1]].written) <= last'.arg[2]]_vars

\* C32: every successful ExportContentData moves the position of its handle
\* forward, whatever the declared size of the content, so that repeated calls
\* bring the position to the declared size.
C32_DataAdvances ==
  [][ExportDataServed =>
       m_export_title_context'.contents[last'.arg[1]].m_position
         > m_export_title_context.contents[last'.arg[1]].m_position]_vars
====
